---- MODULE Spec2Model ----
(***************************************************************************)
(* Verification model of the Ampel LSST alert archive: the block codec     *)
(* (avro.py), the archive index and the dual write of insert_alert_chunk   *)
(* (db.py), the export of search results (db.py), the chunk lease protocol *)
(* (server/streams.py) and the stream ingestor (update.py).                *)
(***************************************************************************)
EXTENDS Integers, Sequences, FiniteSets, TLC

\* Python None / SQL NULL of an integer-valued field (ids and counts are > 0).
None == -1

(***************************************************************************)
(* Bounds of the model.                                                    *)
(***************************************************************************)
\* number of insert_alert_chunk calls in one behaviour
MaxCalls == 2
\* number of alerts in one ingested chunk
MaxChunkLen == 2
\* number of destination keys the caller chooses from
MaxKey == 2
\* schema ids known to the registry
MaxSchemaId == 1

(***************************************************************************)
(* Block codec (avro.py).  A byte is <<tag, x, y>>.                        *)
(***************************************************************************)
\* fastavro._read_common.SYNC_SIZE
SYNC_SIZE == 16

\* the alerts the callers draw from: [diaSource, diaObject, ssSource, MPCORB];
\* an optional sub-record is <<>> (None) or <<record>>
AlertPool ==
  << [diaSource |-> [diaSourceId |-> 1, diaObjectId |-> 1, ssObjectId |-> 0,
                     midpointMjdTai |-> 10, ra |-> 0, dec |-> 0],
      diaObject |-> <<[diaObjectId |-> 1, nDiaSources |-> 3,
                       lastDiaSourceMjdTai |-> 10, ra |-> 0, dec |-> 0]>>,
      ssSource |-> <<>>, MPCORB |-> <<>>],
     [diaSource |-> [diaSourceId |-> 2, diaObjectId |-> 1, ssObjectId |-> 1,
                     midpointMjdTai |-> 20, ra |-> 1, dec |-> 0],
      diaObject |-> <<[diaObjectId |-> 1, nDiaSources |-> 5,
                       lastDiaSourceMjdTai |-> 20, ra |-> 1, dec |-> 0]>>,
      ssSource |-> <<[ssObjectId |-> 1]>>,
      MPCORB |-> <<[mpcDesignation |-> 1]>>],
     [diaSource |-> [diaSourceId |-> 1, diaObjectId |-> 1, ssObjectId |-> 1,
                     midpointMjdTai |-> 30, ra |-> 1, dec |-> 1],
      diaObject |-> <<[diaObjectId |-> 1, nDiaSources |-> 5,
                       lastDiaSourceMjdTai |-> 30, ra |-> 1, dec |-> 1]>>,
      ssSource |-> <<[ssObjectId |-> 1]>>,
      MPCORB |-> <<>>],
     [diaSource |-> [diaSourceId |-> 2, diaObjectId |-> 0, ssObjectId |-> 1,
                     midpointMjdTai |-> 40, ra |-> 0, dec |-> 1],
      diaObject |-> <<>>,
      ssSource |-> <<[ssObjectId |-> 1]>>,
      MPCORB |-> <<[mpcDesignation |-> 2]>>] >>

\* the serialized content of an alert, told apart by its midpointMjdTai
AlertKey(a) == a.diaSource.midpointMjdTai

\* length of the compressed payload of an alert
PayloadLen(a) == 1 + Len(a.diaObject) + Len(a.ssSource)

\* container header written by fastavro.writer: magic, metadata, sync marker
Header(schema_id, marker) ==
  [i \in 1..4 |-> <<"magic", i, 0>>]
    \o << <<"meta", schema_id, 0>>, <<"meta", 0, 0>> >>
    \o [i \in 1..SYNC_SIZE |-> <<"sync", marker, i>>]

\* one block holding one record: count, size, payload, sync marker
Block(a, marker) ==
  << <<"long", 1, 0>>, <<"long", PayloadLen(a), 0>> >>
    \o [i \in 1..PayloadLen(a) |-> <<"data", AlertKey(a), i>>]
    \o [i \in 1..SYNC_SIZE |-> <<"sync", marker, i>>]

RECURSIVE WriteBlocks(_, _)
\* fastavro.writer with sync_interval = 0: every record closes its block
WriteBlocks(records, marker) ==
  IF records = <<>> THEN <<>>
  ELSE Block(Head(records), marker) \o WriteBlocks(Tail(records), marker)

RECURSIVE ReadRanges(_, _)
\* the read-back loop of pack_records: buf.tell() before and after each block
ReadRanges(packed, start) ==
  IF start >= Len(packed) THEN <<>>
  ELSE LET size == packed[start + 2][2]
           end == start + 2 + size + SYNC_SIZE
       IN  << <<start, end>> >> \o ReadRanges(packed, end)

\* pack_records(schema, records) -> (packed, ranges)
pack_records(schema_id, records, marker) ==
  LET packed == Header(schema_id, marker) \o WriteBlocks(records, marker)
  IN  [packed |-> packed,
       ranges |-> ReadRanges(packed, Len(Header(schema_id, marker)))]

(***************************************************************************)
(* Archive index rows (models.py).                                         *)
(***************************************************************************)
\* Python's `x or None`
OrNone(x) == IF x = 0 \/ x = None THEN None ELSE x

\* astropy_healpix.lonlat_to_healpix on the 2 x 2 grid of the alert pool
lonlat_to_healpix(ra, dec) == 2 * dec + ra

\* Alert.from_record with the two offsets exchanged
Alert_from_record_swapped(a, blob_id, blob_start, blob_end) ==
  [id |-> a.diaSource.diaSourceId,
   diaobject_id |-> OrNone(a.diaSource.diaObjectId),
   ssobject_id |-> OrNone(a.diaSource.ssObjectId),
   midpointMjdTai |-> a.diaSource.midpointMjdTai,
   ra |-> a.diaSource.ra,
   dec |-> a.diaSource.dec,
   hpx |-> 2 * a.diaSource.dec + a.diaSource.ra,
   avro_blob_id |-> blob_id,
   avro_blob_start |-> blob_end,
   avro_blob_end |-> blob_start]

\* Alert.from_record
Alert_from_record(a, blob_id, blob_start, blob_end) ==
  [id |-> a.diaSource.diaSourceId,
   diaobject_id |-> OrNone(a.diaSource.diaObjectId),
   ssobject_id |-> OrNone(a.diaSource.ssObjectId),
   midpointMjdTai |-> a.diaSource.midpointMjdTai,
   ra |-> a.diaSource.ra,
   dec |-> a.diaSource.dec,
   hpx |-> lonlat_to_healpix(a.diaSource.ra, a.diaSource.dec),
   avro_blob_id |-> blob_id,
   avro_blob_start |-> blob_start,
   avro_blob_end |-> blob_end]

\* DIAObject.from_record
DIAObject_from_record(d) ==
  [id |-> d.diaObjectId,
   lastDiaSourceMjdTai |-> d.lastDiaSourceMjdTai,
   nDiaSources |-> d.nDiaSources,
   ra |-> d.ra,
   dec |-> d.dec,
   hpx |-> lonlat_to_healpix(d.ra, d.dec)]

\* SSObject.from_record
SSObject_from_record(s, mpcorb) ==
  [id |-> s.ssObjectId,
   designation |-> IF mpcorb # <<>> THEN mpcorb[1].mpcDesignation ELSE None]

(***************************************************************************)
(* The upsert statements of db.py, one row at a time.                      *)
(***************************************************************************)
\* _insert_alerts with ra and dec added to the columns it overwrites
insert_alerts_moved(table, row) ==
  IF \E old \in table : old.id = row.id
  THEN {IF old.id = row.id
        THEN [old EXCEPT !.avro_blob_id = row.avro_blob_id,
                         !.avro_blob_start = row.avro_blob_start,
                         !.avro_blob_end = row.avro_blob_end,
                         !.diaobject_id = row.diaobject_id,
                         !.ssobject_id = row.ssobject_id,
                         !.ra = row.ra,
                         !.dec = row.dec]
        ELSE old : old \in table}
  ELSE table \cup {row}

\* _insert_alerts with on_conflict_do_nothing
insert_alerts_do_nothing(table, row) ==
  IF \E old \in table : old.id = row.id THEN table ELSE table \cup {row}

\* _insert_alerts: on conflict overwrite the pointer fields
insert_alerts(table, row) ==
  IF \E old \in table : old.id = row.id
  THEN {IF old.id = row.id
        THEN [old EXCEPT !.avro_blob_id = row.avro_blob_id,
                         !.avro_blob_start = row.avro_blob_start,
                         !.avro_blob_end = row.avro_blob_end,
                         !.diaobject_id = row.diaobject_id,
                         !.ssobject_id = row.ssobject_id]
        ELSE old : old \in table}
  ELSE table \cup {row}

\* _insert_diaobjects with >= in place of >
insert_diaobjects_ge(table, row) ==
  IF \E old \in table : old.id = row.id
  THEN {IF old.id = row.id
           /\ (old.nDiaSources = None
               \/ (row.nDiaSources # None /\ row.nDiaSources >= old.nDiaSources))
        THEN row
        ELSE old : old \in table}
  ELSE table \cup {row}

\* _insert_diaobjects: on conflict replace the row when the stored
\* nDiaSources is NULL or the incoming one is greater
insert_diaobjects(table, row) ==
  IF \E old \in table : old.id = row.id
  THEN {IF old.id = row.id
           /\ (old.nDiaSources = None
               \/ (row.nDiaSources # None /\ row.nDiaSources > old.nDiaSources))
        THEN row
        ELSE old : old \in table}
  ELSE table \cup {row}

\* _insert_ssobjects that overwrites the designation on conflict
insert_ssobjects_update(table, row) ==
  {old \in table : old.id # row.id} \cup {row}

\* _insert_ssobjects: on conflict do nothing
insert_ssobjects(table, row) ==
  IF \E old \in table : old.id = row.id THEN table ELSE table \cup {row}

RECURSIVE execute_diaobjects(_, _)
\* session.execute(_insert_diaobjects(), params=[...])
execute_diaobjects(table, alerts) ==
  IF alerts = <<>> THEN table
  ELSE LET a == Head(alerts)
           t == IF a.diaObject # <<>>
                THEN insert_diaobjects(table, DIAObject_from_record(a.diaObject[1]))
                ELSE table
       IN  execute_diaobjects(t, Tail(alerts))

RECURSIVE execute_ssobjects(_, _)
\* session.execute(_insert_ssobjects(), params=[...])
execute_ssobjects(table, alerts) ==
  IF alerts = <<>> THEN table
  ELSE LET a == Head(alerts)
           t == IF a.ssSource # <<>>
                THEN insert_ssobjects(table, SSObject_from_record(a.ssSource[1], a.MPCORB))
                ELSE table
       IN  execute_ssobjects(t, Tail(alerts))

RECURSIVE execute_alerts(_, _, _, _)
\* session.execute(_insert_alerts(), params=[... zip(alerts, ranges)])
execute_alerts(table, alerts, ranges, blob_id) ==
  IF alerts = <<>> THEN table
  ELSE LET r == Head(ranges)
       IN  execute_alerts(
             insert_alerts(table, Alert_from_record(Head(alerts), blob_id, r[1], r[2])),
             Tail(alerts), Tail(ranges), blob_id)

(***************************************************************************)
(* State.                                                                  *)
(***************************************************************************)
VARIABLES
  s3,            \* object store: key -> bytes, or <<>> when the key is absent
  avroschema,    \* committed AvroSchema rows
  AVRO_SCHEMAS,  \* process-local schema cache: id and parsed schema
  avroblob,      \* committed AvroBlob rows
  alert,         \* committed Alert rows
  diaobject,     \* committed DIAObject rows
  ssobject,      \* committed SSObject rows
  avroblob_seq,  \* last value of the avroblob id sequence
  call,          \* the insert_alert_chunk call in flight
  ncalls,        \* calls started so far
  ingests        \* chunks whose index transaction committed, oldest first

VARIABLES
  resultgroup,   \* committed ResultGroup rows, by id
  resultblob,    \* committed ResultBlob rows
  rowlock,       \* ResultBlob id -> the session holding its row lock, or 0
  sess,          \* the request each server session is handling
  clock,         \* datetime.now of the server
  nreq,          \* requests started so far
  holders,       \* ResultBlob id -> claims committed since its last release
  deleted        \* ResultBlob ids whose delete committed

VARIABLES
  export,         \* the populate_chunks task
  resultblob_seq  \* last value of the resultblob id sequence

dwvars == <<avroschema, AVRO_SCHEMAS, avroblob, alert, diaobject, ssobject,
            avroblob_seq, call, ncalls, ingests>>

leasevars == <<resultgroup, resultblob, rowlock, sess, clock, nreq, holders,
               deleted>>

exportvars == <<export, resultblob_seq>>

VARIABLES
  buffers,    \* update.py: the PartitionBuffer of each partition, if any
  consumer,   \* the broker's view of the consumer: assignment, positions, committed offsets
  loop,       \* position of the main loop of update.py
  topic_log,  \* schema id of every message of every partition
  polled,     \* the messages consumer.poll returned in this pass of the loop
  flushed,    \* the buffers flush() took in the last pass of the loop
  dropped     \* the partitions whose buffers on_revoke dropped in this pass

ingestvars == <<buffers, consumer, loop, topic_log, polled, flushed, dropped>>

VARIABLES
  codec       \* a caller of the block codec: its containers and what it read

codecvars == <<codec>>

VARIABLES
  registry,   \* the callers of ensure_schema: what each id was first
              \* registered with, and the last call and its return value
  racers      \* processes inside ensure_schema, each with its own cache

schemavars == <<registry, racers>>

VARIABLES
  cone,       \* a caller of cone_search_condition: the ranges and the condition
  lookup      \* a request for one alert by id, and the table it reads

queryvars == <<cone, lookup>>

vars == <<s3, dwvars, leasevars, exportvars, ingestvars, codecvars, schemavars,
          queryvars>>

\* what the actions of each component leave alone
notschema == <<leasevars, exportvars, ingestvars, codecvars, queryvars>>
notdw == <<notschema, schemavars>>
notlease == <<dwvars, exportvars, ingestvars, codecvars, schemavars, queryvars>>
notexport == <<ingestvars, codecvars, schemavars, queryvars>>
notingest == <<s3, dwvars, leasevars, exportvars, codecvars, schemavars,
              queryvars>>
notcodec == <<s3, dwvars, leasevars, exportvars, ingestvars, schemavars,
             queryvars>>
notquery == <<s3, dwvars, leasevars, exportvars, ingestvars, codecvars,
              schemavars>>

\* nobody builds a cone search and nobody looks an alert up
ParkedQuery ==
  /\ cone = [pc |-> "idle"]
  /\ lookup = [pc |-> "idle"]

SchemaIds == 1..MaxSchemaId

\* schema ids the registry is called with
MaxRegistryId == 2
\* distinct schema documents
MaxContent == 3

RegistryIds == 1..MaxRegistryId
SchemaContents == 1..MaxContent

\* fastavro.parse_schema(json.loads(content))
parse_schema(content) == [type |-> "record", parsed |-> content]

\* AvroSchema rows with this id
stored(schema_id) == {s \in avroschema : s.id = schema_id}

\* schema_id in AVRO_SCHEMAS
cached(schema_id) == \E c \in AVRO_SCHEMAS : c.id = schema_id

\* AVRO_SCHEMAS[schema_id]
cached_schema(cache, schema_id) == (CHOOSE c \in cache : c.id = schema_id).schema

\* AVRO_SCHEMAS[schema_id] = fastavro.parse_schema(json.loads(content))
cache_put(schema_id, content) ==
  {c \in AVRO_SCHEMAS : c.id # schema_id}
    \cup {[id |-> schema_id, schema |-> parse_schema(content)]}

\* nobody has called ensure_schema
NoRegistry == [first |-> [i \in RegistryIds |-> None], last |-> <<>>]

\* processes that call ensure_schema concurrently
MaxProcs == 2
\* calls of ensure_schema one process makes
MaxRaceCalls == 2

Procs == 1..MaxProcs

\* a process that has imported db.py and is not inside ensure_schema
IdleRacer == [pc |-> "idle", schema_id |-> None, content |-> None, cache |-> {},
              returned |-> None, calls |-> 0]

NoRacers == [p \in Procs |-> IdleRacer]

ParkedSchema ==
  /\ registry = NoRegistry
  /\ racers = NoRacers
Keys == 1..MaxKey
NoObject == <<>>

RECURSIVE SeqsUpTo(_, _)
\* the sequences over S of length 1..n
SeqsUpTo(S, n) ==
  IF n = 0 THEN {}
  ELSE LET shorter == SeqsUpTo(S, n - 1)
       IN  {<<x>> : x \in S} \cup shorter
             \cup {Append(s, x) : s \in shorter, x \in S}

Chunks == SeqsUpTo({AlertPool[i] : i \in 1..Len(AlertPool)}, MaxChunkLen)

IdleCall == [pc |-> "idle"]

\* no insert_alert_chunk call is made
ParkedDW ==
  /\ avroschema = {}
  /\ AVRO_SCHEMAS = {}
  /\ avroblob = {}
  /\ alert = {}
  /\ diaobject = {}
  /\ ssobject = {}
  /\ avroblob_seq = 0
  /\ call = IdleCall
  /\ ncalls = 0
  /\ ingests = <<>>

\* no export task is running
ParkedExport ==
  /\ export = [pc |-> "idle"]
  /\ resultblob_seq = 0

\* nobody calls the codec on its own
ParkedCodec == codec = [pc |-> "idle"]

\* no ingestor is running
ParkedIngest ==
  /\ buffers = <<>>
  /\ consumer = <<>>
  /\ loop = [pc |-> "closed"]
  /\ topic_log = <<>>
  /\ polled = {}
  /\ flushed = {}
  /\ dropped = {}

\* the chunk lease protocol is not running
ParkedLease ==
  /\ resultgroup = <<>>
  /\ resultblob = {}
  /\ rowlock = <<>>
  /\ sess = <<>>
  /\ clock = 0
  /\ nreq = 0
  /\ holders = <<>>
  /\ deleted = {}

\* an empty archive and an empty bucket; nothing else runs
InitDW ==
  /\ ParkedDW
  /\ s3 = [k \in Keys |-> NoObject]
  /\ ParkedLease
  /\ ParkedExport
  /\ ParkedIngest
  /\ ParkedCodec
  /\ ParkedSchema
  /\ ParkedQuery

(***************************************************************************)
(* ensure_schema                                                           *)
(***************************************************************************)
\* an insert that replaces the content of a stored row
insert_avroschema_replace(rows, schema_id, content) ==
  {s \in rows : s.id # schema_id} \cup {[id |-> schema_id, content |-> content]}

\* lines 44-53: select the row, insert and commit if there is none
insert_avroschema(rows, schema_id, content) ==
  IF \E s \in rows : s.id = schema_id
  THEN rows
  ELSE rows \cup {[id |-> schema_id, content |-> content]}

\* lines 54-56: the content that is parsed, the stored one if a row exists
schema_content(schema_id, content) ==
  IF stored(schema_id) = {} THEN content
  ELSE (CHOOSE s \in stored(schema_id) : TRUE).content

\* ensure_schema, lines 41-58
ensure_schema(schema_id, content) ==
  /\ call.pc = "idle"
  /\ avroschema' = IF cached(schema_id) THEN avroschema
                   ELSE insert_avroschema(avroschema, schema_id, content)
  /\ AVRO_SCHEMAS' = IF cached(schema_id) THEN AVRO_SCHEMAS
                     ELSE cache_put(schema_id, schema_content(schema_id, content))
  /\ registry' =
       [first |-> [registry.first EXCEPT
                     ![schema_id] = IF @ = None THEN content ELSE @],
        last |-> <<[schema_id |-> schema_id, content |-> content,
                    returned |-> cached_schema(AVRO_SCHEMAS', schema_id)]>>]
  /\ UNCHANGED racers
  /\ UNCHANGED <<s3, avroblob, alert, diaobject, ssobject, avroblob_seq, call,
                 ncalls, ingests>>
  /\ UNCHANGED notschema

\* get_schema, lines 61-69, for a caller outside insert_alert_chunk
get_schema(schema_id) ==
  /\ call.pc = "idle"
  /\ ~cached(schema_id)
  /\ stored(schema_id) # {}
  /\ AVRO_SCHEMAS' = cache_put(schema_id, schema_content(schema_id, None))
  /\ UNCHANGED <<s3, avroschema, avroblob, alert, diaobject, ssobject,
                 avroblob_seq, call, ncalls, ingests>>
  /\ UNCHANGED notdw

\* a new process imports db.py with an empty cache, line 39
import_db ==
  /\ call.pc = "idle"
  /\ AVRO_SCHEMAS # {}
  /\ AVRO_SCHEMAS' = {}
  /\ UNCHANGED <<s3, avroschema, avroblob, alert, diaobject, ssobject,
                 avroblob_seq, call, ncalls, ingests>>
  /\ UNCHANGED notdw

NextSchema ==
  \/ \E id \in RegistryIds, content \in SchemaContents : ensure_schema(id, content)
  \/ \E id \in RegistryIds : get_schema(id)
  \/ import_db

(***************************************************************************)
(* insert_alert_chunk, one action per awaited operation.  `ok` is the      *)
(* outcome of the operation: FALSE injects its failure.                    *)
(***************************************************************************)
\* get_schema
get_schema_ok(schema_id) == cached(schema_id) \/ stored(schema_id) # {}

\* the cache after get_schema returned, lines 62-69
get_schema_cache(schema_id) ==
  IF cached(schema_id) THEN AVRO_SCHEMAS
  ELSE cache_put(schema_id, schema_content(schema_id, None))

\* lines 146-161: open the session, look up the schema, pack the records
insert_alert_chunk(schema_id, key, alerts, on_complete) ==
  /\ call.pc = "idle"
  /\ ncalls < MaxCalls
  /\ ncalls' = ncalls + 1
  /\ IF get_schema_ok(schema_id)
     THEN LET p == pack_records(schema_id, alerts, ncalls + 1)
          IN  /\ call' = [pc |-> "put",
                          schema_id |-> schema_id,
                          uri |-> key,
                          alerts |-> alerts,
                          on_complete |-> on_complete,
                          blob |-> p.packed,
                          ranges |-> p.ranges,
                          blob_id |-> None,
                          t_avroblob |-> avroblob,
                          t_alert |-> alert,
                          t_diaobject |-> diaobject,
                          t_ssobject |-> ssobject,
                          pre_avroblob |-> avroblob,
                          pre_alert |-> alert,
                          pre_avroschema |-> avroschema,
                          pre_diaobject |-> diaobject,
                          pre_object |-> s3[key],
                          committed |-> FALSE,
                          callbacks |-> 0,
                          failed_at |-> "none"]
              /\ AVRO_SCHEMAS' = get_schema_cache(schema_id)
     ELSE /\ call' = [pc |-> "raised", failed_at |-> "get_schema",
                      committed |-> FALSE, callbacks |-> 0]
          /\ UNCHANGED AVRO_SCHEMAS
  /\ UNCHANGED <<s3, avroschema, avroblob, alert, diaobject, ssobject,
                 avroblob_seq, ingests>>
  /\ UNCHANGED notdw

\* the state of a call that raised at `where`
Raised(where) == [call EXCEPT !.pc = "raised", !.failed_at = where]

\* obj.delete()
obj_delete(store, uri) == [store EXCEPT ![uri] = NoObject]

\* store_alert_chunk, lines 75-85: obj.put
store_put(ok) ==
  /\ call.pc = "put"
  /\ IF ok
     THEN /\ s3' = [s3 EXCEPT ![call.uri] = call.blob]
          /\ call' = [call EXCEPT !.pc = "flush"]
     ELSE /\ call' = Raised("put")
          /\ UNCHANGED s3
  /\ UNCHANGED <<avroschema, AVRO_SCHEMAS, avroblob, alert, diaobject, ssobject,
                 avroblob_seq, ncalls, ingests>>
  /\ UNCHANGED notdw

\* store_alert_chunk, lines 90-92: the handler of a failed flush
store_flush_failed(store, uri) == obj_delete(store, uri)

\* store_alert_chunk, lines 87-94: session.add(record); session.flush()
store_flush(ok) ==
  /\ call.pc = "flush"
  /\ IF ok
     THEN /\ avroblob_seq' = avroblob_seq + 1
          /\ call' = [call EXCEPT
               !.pc = "diaobjects",
               !.blob_id = avroblob_seq + 1,
               !.t_avroblob = @ \cup {[id |-> avroblob_seq + 1,
                                       schema_id |-> call.schema_id,
                                       uri |-> call.uri,
                                       count |-> Len(call.alerts),
                                       size |-> Len(call.blob),
                                       refcount |-> 0]}]
          /\ UNCHANGED s3
     ELSE /\ s3' = store_flush_failed(s3, call.uri)
          /\ call' = Raised("flush")
          /\ UNCHANGED avroblob_seq
  /\ UNCHANGED <<avroschema, AVRO_SCHEMAS, avroblob, alert, diaobject, ssobject,
                 ncalls, ingests>>
  /\ UNCHANGED notdw

\* the handler without obj.delete()
compensate_no_delete(store, uri) == store

\* lines 194-197: transaction.rollback(); obj.delete(); raise
compensate(store, uri) == obj_delete(store, uri)

\* lines 165-172
execute_insert_diaobjects(ok) ==
  /\ call.pc = "diaobjects"
  /\ IF ok
     THEN /\ call' = [call EXCEPT
               !.pc = "ssobjects",
               !.t_diaobject = execute_diaobjects(@, call.alerts)]
          /\ UNCHANGED s3
     ELSE /\ s3' = compensate(s3, call.uri)
          /\ call' = Raised("diaobjects")
  /\ UNCHANGED <<avroschema, AVRO_SCHEMAS, avroblob, alert, diaobject, ssobject,
                 avroblob_seq, ncalls, ingests>>
  /\ UNCHANGED notdw

\* lines 174-181
execute_insert_ssobjects(ok) ==
  /\ call.pc = "ssobjects"
  /\ IF ok
     THEN /\ call' = [call EXCEPT
               !.pc = "alerts",
               !.t_ssobject = execute_ssobjects(@, call.alerts)]
          /\ UNCHANGED s3
     ELSE /\ s3' = compensate(s3, call.uri)
          /\ call' = Raised("ssobjects")
  /\ UNCHANGED <<avroschema, AVRO_SCHEMAS, avroblob, alert, diaobject, ssobject,
                 avroblob_seq, ncalls, ingests>>
  /\ UNCHANGED notdw

\* on_complete() called before transaction.commit()
execute_insert_alerts_then_callback(ok) ==
  /\ call.pc = "alerts"
  /\ IF ok
     THEN /\ call' = [call EXCEPT
               !.pc = IF call.on_complete THEN "on_complete" ELSE "commit",
               !.t_alert = execute_alerts(@, call.alerts, call.ranges, call.blob_id)]
          /\ UNCHANGED s3
     ELSE /\ s3' = [s3 EXCEPT ![call.uri] = NoObject]
          /\ call' = Raised("alerts")
  /\ UNCHANGED <<avroschema, AVRO_SCHEMAS, avroblob, alert, diaobject, ssobject,
                 avroblob_seq, ncalls, ingests>>
  /\ UNCHANGED notdw

\* lines 183-189
execute_insert_alerts(ok) ==
  /\ call.pc = "alerts"
  /\ IF ok
     THEN /\ call' = [call EXCEPT
               !.pc = "commit",
               !.t_alert = execute_alerts(@, call.alerts, call.ranges, call.blob_id)]
          /\ UNCHANGED s3
     ELSE /\ s3' = compensate(s3, call.uri)
          /\ call' = Raised("alerts")
  /\ UNCHANGED <<avroschema, AVRO_SCHEMAS, avroblob, alert, diaobject, ssobject,
                 avroblob_seq, ncalls, ingests>>
  /\ UNCHANGED notdw

\* the step after a successful commit: the callback if there is one
after_commit(on_complete) == IF on_complete THEN "on_complete" ELSE "done"

\* lines 190-191: session.flush(); transaction.commit()
transaction_commit(ok) ==
  /\ call.pc = "commit"
  /\ IF ok
     THEN /\ avroblob' = call.t_avroblob
          /\ alert' = call.t_alert
          /\ diaobject' = call.t_diaobject
          /\ ssobject' = call.t_ssobject
          /\ ingests' = Append(ingests, [alerts |-> call.alerts,
                                         blob_id |-> call.blob_id])
          /\ call' = [call EXCEPT !.pc = after_commit(call.on_complete),
                                  !.committed = TRUE]
          /\ UNCHANGED s3
     ELSE /\ s3' = compensate(s3, call.uri)
          /\ call' = Raised("commit")
          /\ UNCHANGED <<avroblob, alert, diaobject, ssobject, ingests>>
  /\ UNCHANGED <<avroschema, AVRO_SCHEMAS, avroblob_seq, ncalls>>
  /\ UNCHANGED notdw

\* lines 192-197: on_complete(), and the handler when it raises.  The
\* transaction is then already committed: transaction.rollback() either
\* returns, and the object is deleted, or raises, and the delete is skipped.
on_complete(ok, rollback_raises) ==
  /\ call.pc = "on_complete"
  /\ IF ok
     THEN /\ call' = [call EXCEPT !.pc = "done", !.callbacks = @ + 1]
          /\ UNCHANGED s3
     ELSE /\ s3' = IF rollback_raises THEN s3 ELSE compensate(s3, call.uri)
          /\ call' = [call EXCEPT !.pc = "raised", !.callbacks = @ + 1,
                                  !.failed_at = "on_complete"]
  /\ UNCHANGED <<avroschema, AVRO_SCHEMAS, avroblob, alert, diaobject, ssobject,
                 avroblob_seq, ncalls, ingests>>
  /\ UNCHANGED notdw

\* the call returns or raises to its caller
call_return ==
  /\ call.pc \in {"done", "raised"}
  /\ call' = IdleCall
  /\ UNCHANGED <<s3, avroschema, AVRO_SCHEMAS, avroblob, alert, diaobject,
                 ssobject, avroblob_seq, ncalls, ingests>>
  /\ UNCHANGED notdw

NextDW ==
  \/ \E id \in SchemaIds : ensure_schema(id, id)
  \/ \E id \in SchemaIds, k \in Keys, c \in Chunks, cb \in BOOLEAN :
       insert_alert_chunk(id, k, c, cb)
  \/ \E ok \in BOOLEAN : store_put(ok)
  \/ \E ok \in BOOLEAN : store_flush(ok)
  \/ \E ok \in BOOLEAN : execute_insert_diaobjects(ok)
  \/ \E ok \in BOOLEAN : execute_insert_ssobjects(ok)
  \/ \E ok \in BOOLEAN : execute_insert_alerts(ok)
  \/ \E ok \in BOOLEAN : transaction_commit(ok)
  \/ \E ok \in BOOLEAN, rr \in BOOLEAN : on_complete(ok, rr)
  \/ call_return

(***************************************************************************)
(* Properties of the dual write.                                           *)
(***************************************************************************)
\* the failure points between the object write and the index commit
BeforeCommit == {"flush", "diaobjects", "ssobjects", "alerts", "commit"}

\* the ids of the records of a chunk
ChunkIds(alerts) == {alerts[i].diaSource.diaSourceId : i \in 1..Len(alerts)}

\* the last position of a record id in a chunk
LastIndex(alerts, id) ==
  CHOOSE i \in 1..Len(alerts) :
    /\ alerts[i].diaSource.diaSourceId = id
    /\ \A j \in (i + 1)..Len(alerts) : alerts[j].diaSource.diaSourceId # id

\* C1: every committed Alert row references an AvroBlob row whose object
\* exists in the object store, in every state reachable by any sequence of
\* insert_alert_chunk calls, failed or not.
C1_NoDanglingRow ==
  \A a \in alert :
    \E b \in avroblob : b.id = a.avro_blob_id /\ s3[b.uri] # NoObject

\* C2: when insert_alert_chunk raises after the object write and before the
\* index commit, the object just written is gone and no AvroBlob row and no
\* Alert row of the call is committed.
C2_FailureBeforeCommitCompensated ==
  (call.pc = "raised" /\ call.failed_at \in BeforeCommit) =>
    /\ s3[call.uri] = NoObject
    /\ avroblob = call.pre_avroblob
    /\ alert = call.pre_alert
    /\ \A b \in avroblob : b.id # call.blob_id
    /\ \A a \in alert : a.avro_blob_id # call.blob_id

C2_Witness ==
  /\ call.pc = "raised"
  /\ call.failed_at = "commit"
  /\ call.blob_id # None
  /\ s3[call.uri] = NoObject

\* C25: when insert_alert_chunk has raised, the committed index rows are the
\* ones from before the call and the destination key holds what it held
\* before the call
C25_FailedCallRestores ==
  (call.pc = "raised" /\ call.failed_at # "get_schema") =>
    /\ avroblob = call.pre_avroblob
    /\ alert = call.pre_alert
    /\ diaobject = call.pre_diaobject
    /\ s3[call.uri] = call.pre_object

\* C3: on_complete is invoked at most once per call, only when the index
\* transaction of the call has committed, and never for a call that failed
\* before its commit.
C3_CallbackOnlyAfterCommit ==
  call.pc # "idle" =>
    /\ call.callbacks <= 1
    /\ call.callbacks > 0 =>
         /\ call.committed
         /\ \E b \in avroblob : b.id = call.blob_id
         /\ \A id \in ChunkIds(call.alerts) :
              \E a \in alert : a.id = id /\ a.avro_blob_id = call.blob_id
    /\ (call.pc = "raised" /\ call.failed_at \in BeforeCommit \cup {"get_schema", "put"})
         => call.callbacks = 0

C3_Witness ==
  /\ call.pc = "done"
  /\ call.on_complete
  /\ call.callbacks = 1

\* C5: a successful call with n records of pairwise distinct ids, none of
\* them in the archive, commits exactly one new AvroBlob row (count n, size
\* of the packed bytes, refcount 0) and exactly n Alert rows, the i-th with
\* that blob's id and the i-th range of pack_records; no schema row is added.
C5_FreshChunkRows ==
  (/\ call.pc = "done"
   /\ Cardinality(ChunkIds(call.alerts)) = Len(call.alerts)
   /\ \A a \in call.pre_alert : a.id \notin ChunkIds(call.alerts)) =>
    LET new_blobs == avroblob \ call.pre_avroblob
        new_alerts == alert \ call.pre_alert
        p == pack_records(call.schema_id, call.alerts, ncalls)
    IN  /\ call.pre_avroblob \subseteq avroblob
        /\ Cardinality(new_blobs) = 1
        /\ \A b \in new_blobs :
             /\ b.count = Len(call.alerts)
             /\ b.size = Len(p.packed)
             /\ b.refcount = 0
             /\ b.schema_id = call.schema_id
             /\ \A i \in 1..Len(call.alerts) :
                  \E a \in new_alerts :
                    /\ a.id = call.alerts[i].diaSource.diaSourceId
                    /\ a.avro_blob_id = b.id
                    /\ a.avro_blob_start = p.ranges[i][1]
                    /\ a.avro_blob_end = p.ranges[i][2]
                    /\ a.avro_blob_start < a.avro_blob_end
        /\ call.pre_alert \subseteq alert
        /\ Cardinality(new_alerts) = Len(call.alerts)
        /\ Cardinality(avroschema) = Cardinality(call.pre_avroschema)

C5_Witness ==
  /\ call.pc = "done"
  /\ Len(call.alerts) = 2
  /\ Cardinality(ChunkIds(call.alerts)) = 2
  /\ call.pre_alert = {}
  /\ Cardinality(alert) = 2

\* a chunk with the records of the call in flight committed before it
Replayed ==
  /\ call.pc = "done"
  /\ \E i \in 1..(Len(ingests) - 1) : ingests[i].alerts = call.alerts

\* C6: after a chunk is ingested again there is exactly one Alert row per
\* record id, pointing into the blob of the latest ingest, and there is one
\* AvroBlob row per committed write.
C6_IdempotentReplay ==
  /\ Cardinality(avroblob) = Len(ingests)
  /\ Replayed =>
       \A id \in ChunkIds(call.alerts) :
         LET rows == {a \in alert : a.id = id}
             r == call.ranges[LastIndex(call.alerts, id)]
         IN  /\ Cardinality(rows) = 1
             /\ \A a \in rows :
                  /\ a.avro_blob_id = call.blob_id
                  /\ a.avro_blob_id = ingests[Len(ingests)].blob_id
                  /\ a.avro_blob_start = r[1]
                  /\ a.avro_blob_end = r[2]

C6_Witness ==
  /\ Replayed
  /\ Len(call.alerts) = 2
  /\ Cardinality(avroblob) = 2

\* the Alert row the call in flight sends for a record id
IncomingAlert(id) ==
  LET i == LastIndex(call.alerts, id)
  IN  Alert_from_record(call.alerts[i], call.blob_id,
                        call.ranges[i][1], call.ranges[i][2])

\* the pointer columns of a row are those of the incoming row
PointerFrom(new, inc) ==
  /\ new.avro_blob_id = inc.avro_blob_id
  /\ new.avro_blob_start = inc.avro_blob_start
  /\ new.avro_blob_end = inc.avro_blob_end
  /\ new.diaobject_id = inc.diaobject_id
  /\ new.ssobject_id = inc.ssobject_id

\* C34: on an id conflict the Alert upsert overwrites avro_blob_id,
\* avro_blob_start, avro_blob_end, diaobject_id and ssobject_id with the
\* incoming values and keeps midpointMjdTai, ra, dec and hpx as first
\* stored, so the hpx of every row is the healpix cell of its own (ra, dec).
C34_UpsertKeepsPosition ==
  /\ \A a \in alert : a.hpx = lonlat_to_healpix(a.ra, a.dec)
  /\ (call.pc # "idle" /\ call.committed) =>
       \A old \in call.pre_alert :
         \E new \in alert :
           /\ new.id = old.id
           /\ new.midpointMjdTai = old.midpointMjdTai
           /\ new.ra = old.ra
           /\ new.dec = old.dec
           /\ new.hpx = old.hpx
           /\ IF old.id \in ChunkIds(call.alerts)
              THEN PointerFrom(new, IncomingAlert(old.id))
              ELSE new = old

\* a committed ingest brought a record whose id was stored with another
\* position
C34_Witness ==
  /\ call.pc # "idle"
  /\ call.committed
  /\ \E old \in call.pre_alert :
       /\ old.id \in ChunkIds(call.alerts)
       /\ IncomingAlert(old.id).hpx # old.hpx
       /\ IncomingAlert(old.id).avro_blob_id # old.avro_blob_id

\* the DIAObject records a chunk carries for an id
Incoming(alerts, id) ==
  {DIAObject_from_record(alerts[i].diaObject[1]) :
     i \in {j \in 1..Len(alerts) :
              /\ alerts[j].diaObject # <<>>
              /\ alerts[j].diaObject[1].diaObjectId = id}}

\* C7: a committed ingest replaces a stored DIAObject row only by an incoming
\* record with a strictly greater nDiaSources (or when the stored count is
\* NULL), otherwise the stored row keeps every field; the stored count is
\* never below the stored or any incoming count.
C7_MonotonicCount ==
  (call.pc # "idle" /\ call.committed) =>
    /\ \A old \in call.pre_diaobject :
         \E new \in diaobject :
           /\ new.id = old.id
           /\ new # old =>
                /\ old.nDiaSources = None \/ new.nDiaSources > old.nDiaSources
                /\ new \in Incoming(call.alerts, old.id)
    /\ \A i \in 1..Len(call.alerts) :
         call.alerts[i].diaObject # <<>> =>
           LET d == DIAObject_from_record(call.alerts[i].diaObject[1])
               rows == {r \in diaobject : r.id = d.id}
           IN  /\ Cardinality(rows) = 1
               /\ \A r \in rows : r.nDiaSources >= d.nDiaSources

\* counts 5 then 3: the stored row keeps the values of the count-5 record
C7_Witness ==
  /\ call.pc = "done"
  /\ \E old \in call.pre_diaobject : old.nDiaSources = 5 /\ old \in diaobject
  /\ \E i \in 1..Len(call.alerts) :
       /\ call.alerts[i].diaObject # <<>>
       /\ call.alerts[i].diaObject[1].nDiaSources = 3

RECURSIVE IngestedAlerts(_)
\* the alerts of the committed ingests, in the order they were written
IngestedAlerts(chunks) ==
  IF chunks = <<>> THEN <<>>
  ELSE Head(chunks).alerts \o IngestedAlerts(Tail(chunks))

\* the SSObject rows the committed ingests carried for an id, oldest first
SSWrites(id) ==
  LET carried == SelectSeq(IngestedAlerts(ingests),
                           LAMBDA a : a.ssSource # <<>> /\ a.ssSource[1].ssObjectId = id)
  IN  [i \in 1..Len(carried) |->
         SSObject_from_record(carried[i].ssSource[1], carried[i].MPCORB)]

\* the ssObjectId values of the alerts
SSObjectIds == {AlertPool[i].diaSource.ssObjectId : i \in 1..Len(AlertPool)}

\* C19: the SSObject row of an id is the one of the first committed ingest
\* that carried the id, with the designation (or NULL) of that first write;
\* an id no committed ingest carried has no row
C19_FirstWriteWins ==
  \A id \in SSObjectIds :
    IF SSWrites(id) = <<>>
    THEN {r \in ssobject : r.id = id} = {}
    ELSE {r \in ssobject : r.id = id} = {SSWrites(id)[1]}

\* the first write of an id had no designation and a later committed ingest
\* carried one for the same id
C19_Witness ==
  /\ Len(ingests) = 2
  /\ \E id \in SSObjectIds :
       /\ SSWrites(id) # <<>>
       /\ SSWrites(id)[1].designation = None
       /\ \E i \in 2..Len(SSWrites(id)) : SSWrites(id)[i].designation # None
       /\ \E a \in {ingests[2].alerts[j] : j \in 1..Len(ingests[2].alerts)} :
            /\ a.ssSource # <<>>
            /\ a.ssSource[1].ssObjectId = id
            /\ a.MPCORB # <<>>

(***************************************************************************)
(* Chunk lease protocol (server/streams.py).  Every request runs in its    *)
(* own session and transaction (server/db.py get_session), committed when  *)
(* the handler has returned.                                               *)
(***************************************************************************)
\* server sessions handling requests concurrently
MaxSession == 2
\* ResultBlob rows of the result groups
MaxResultBlob == 2
\* requests in one behaviour
MaxRequests == 3
\* execution_options(yield_per=...) of stream_delete: keys in one batch
yield_per == 1

Sessions == 1..MaxSession
ResultBlobIds == 1..MaxResultBlob
\* group 1 has finished, group 2 is pending, failed or finished.  The rows
\* of a pending group are the ones its export task has flushed in its open
\* transaction: their objects are stored, and the rows are committed
\* together with the resolution of the group
GroupIds == 1..2
\* resume tokens: the name of a group, or 0 for a name no group has
Tokens == 0..2
Ops == {"claim", "get", "release", "delete"}

IdleSession == [pc |-> "idle"]

InitLease ==
  /\ resultgroup \in {[g \in GroupIds |->
                           [name |-> g, chunk_size |-> 1,
                            error |-> IF g = 1 THEN "false" ELSE e,
                            msg |-> IF g = 2 /\ e = "true" THEN "error" ELSE "null",
                            resolved |-> IF g = 1 \/ e = "false" THEN 0 ELSE None]] :
                        e \in {"null", "true", "false"}}
  /\ resultblob \in {{[id |-> c, schema_id |-> 1, group_id |-> grp[c], uri |-> c,
                          count |-> 1, size |-> 1, issued |-> None] :
                         c \in ResultBlobIds} :
                       grp \in [ResultBlobIds -> GroupIds]}
  /\ s3 = [c \in ResultBlobIds |-> <<c>>]
  /\ rowlock = [c \in ResultBlobIds |-> 0]
  /\ sess = [s \in Sessions |-> IdleSession]
  /\ clock = 0
  /\ nreq = 0
  /\ holders = [c \in ResultBlobIds |-> 0]
  /\ deleted = {}
  /\ ParkedDW
  /\ ParkedExport
  /\ ParkedIngest
  /\ ParkedCodec
  /\ ParkedSchema
  /\ ParkedQuery

\* the rows of a group, issued or not
Unclaimed_any(group_id) == {b \in resultblob : b.group_id = group_id}

\* the rows of a group whose issued is NULL
Unclaimed(group_id) ==
  {b \in resultblob : b.group_id = group_id /\ b.issued = None}

\* get_group without the tests of group.error
get_group_unchecked(token) ==
  IF \A g \in GroupIds : resultgroup[g].name # token THEN "404" ELSE "ok"

\* get_group: the outcome for a resume token
get_group(token) ==
  IF \A g \in GroupIds : resultgroup[g].name # token THEN "404"
  ELSE LET g == CHOOSE g \in GroupIds : resultgroup[g].name = token
       IN  IF resultgroup[g].error = "null" THEN "423"
           ELSE IF resultgroup[g].error = "true" THEN "424"
           ELSE "ok"

\* get_group: the detail of the HTTPException it raises
get_group_detail(token) ==
  IF \A g \in GroupIds : resultgroup[g].name # token THEN "Stream not found"
  ELSE LET g == CHOOSE g \in GroupIds : resultgroup[g].name = token
       IN  IF resultgroup[g].error = "null"
           THEN "queue-populating query has not yet finished"
           ELSE resultgroup[g].msg

\* a request arrives: the session opens its transaction and resolves the
\* group of the token
request(s, op, token, chunk_id) ==
  /\ sess[s].pc \in {"idle", "done"}
  /\ nreq < MaxRequests
  /\ nreq' = nreq + 1
  /\ sess' = [sess EXCEPT ![s] =
       IF get_group(token) = "ok"
       THEN [pc |-> IF op = "claim" THEN "select" ELSE "get_blob",
             op |-> op, group |-> token, chunk |-> chunk_id, result |-> "none",
             issued |-> None, detail |-> "null",
             start_free |-> {b.id : b \in Unclaimed(token)},
             rivals |-> {r \in Sessions \ {s} :
                           /\ sess[r].pc \in {"select", "commit"}
                           /\ sess[r].op = "claim"
                           /\ sess[r].group = token}]
       ELSE [pc |-> "done", op |-> op, group |-> token, chunk |-> chunk_id,
             result |-> get_group(token), issued |-> None,
             detail |-> get_group_detail(token), start_free |-> {},
             rivals |-> {}]]
  /\ UNCHANGED <<s3, resultgroup, resultblob, rowlock, clock, holders, deleted>>
  /\ UNCHANGED notlease

\* the rows SELECT ... WHERE issued IS NULL FOR UPDATE reads without regard
\* to the row locks of other sessions
claim_rows_unlocked(s) == Unclaimed(sess[s].group)

\* the rows SELECT ... WHERE issued IS NULL FOR UPDATE SKIP LOCKED returns
claim_rows(s) ==
  {b \in Unclaimed(sess[s].group) : rowlock[b.id] \in {0, s}}

\* stream_claim_chunk: the select locks every row it returns, the first row
\* is the chunk handed out
stream_claim_chunk(s) ==
  /\ sess[s].pc = "select"
  /\ IF claim_rows(s) = {}
     THEN /\ sess' = [sess EXCEPT ![s].pc = "done", ![s].result = "204"]
          /\ UNCHANGED <<rowlock, clock>>
     ELSE \E b \in claim_rows(s) :
            /\ rowlock' = [c \in ResultBlobIds |->
                             IF c \in {r.id : r \in claim_rows(s)} THEN s
                             ELSE rowlock[c]]
            /\ clock' = clock + 1
            /\ sess' = [sess EXCEPT ![s].pc = "commit", ![s].chunk = b.id,
                                    ![s].issued = clock + 1]
  /\ UNCHANGED <<s3, resultgroup, resultblob, nreq, holders, deleted>>
  /\ UNCHANGED notlease

\* get_blob: SELECT ... FOR UPDATE NOWAIT of one chunk of the group
get_blob(s) ==
  /\ sess[s].pc = "get_blob"
  /\ LET rows == {b \in resultblob :
                    b.group_id = sess[s].group /\ b.id = sess[s].chunk}
     IN  IF rows = {}
         THEN /\ sess' = [sess EXCEPT ![s].pc = "done", ![s].result = "404"]
              /\ UNCHANGED rowlock
         ELSE IF rowlock[sess[s].chunk] \notin {0, s}
         THEN /\ sess' = [sess EXCEPT ![s].pc = "done", ![s].result = "locked"]
              /\ UNCHANGED rowlock
         ELSE /\ rowlock' = [rowlock EXCEPT ![sess[s].chunk] = s]
              /\ sess' = [sess EXCEPT ![s].pc =
                            IF sess[s].op = "delete" THEN "s3_delete" ELSE "commit"]
  /\ UNCHANGED <<s3, resultgroup, resultblob, clock, nreq, holders, deleted>>
  /\ UNCHANGED notlease

\* stream_delete_chunk, line 186: delete the object of the chunk
stream_delete_chunk(s) ==
  /\ sess[s].pc = "s3_delete"
  /\ LET blob == CHOOSE b \in resultblob : b.id = sess[s].chunk
     IN  s3' = obj_delete(s3, blob.uri)
  /\ sess' = [sess EXCEPT ![s].pc = "commit"]
  /\ UNCHANGED <<resultgroup, resultblob, rowlock, clock, nreq, holders, deleted>>
  /\ UNCHANGED notlease

\* the rows after a delete request that leaves its row in place
flush_session_no_delete(s) ==
  CASE sess[s].op = "claim" ->
         {IF b.id = sess[s].chunk THEN [b EXCEPT !.issued = sess[s].issued] ELSE b :
            b \in resultblob}
    [] sess[s].op = "release" ->
         {IF b.id = sess[s].chunk THEN [b EXCEPT !.issued = None] ELSE b :
            b \in resultblob}
    [] OTHER -> resultblob

\* the rows after the handler's changes are flushed: claim sets issued
\* (line 147), release clears it (line 202), delete removes the row (line 187)
flush_session(s) ==
  CASE sess[s].op = "claim" ->
         {IF b.id = sess[s].chunk THEN [b EXCEPT !.issued = sess[s].issued] ELSE b :
            b \in resultblob}
    [] sess[s].op = "release" ->
         {IF b.id = sess[s].chunk THEN [b EXCEPT !.issued = None] ELSE b :
            b \in resultblob}
    [] sess[s].op = "delete" -> {b \in resultblob : b.id # sess[s].chunk}
    [] OTHER -> resultblob

\* get_session: the transaction of the request commits and its row locks
\* are released
session_commit(s) ==
  /\ sess[s].pc = "commit"
  /\ resultblob' = flush_session(s)
  /\ rowlock' = [c \in ResultBlobIds |-> IF rowlock[c] = s THEN 0 ELSE rowlock[c]]
  /\ sess' = [sess EXCEPT ![s].pc = "done", ![s].result = "ok"]
  /\ holders' = [holders EXCEPT ![sess[s].chunk] =
                   IF sess[s].op = "claim" THEN @ + 1
                   ELSE IF sess[s].op = "release" THEN 0
                   ELSE @]
  /\ deleted' = IF sess[s].op = "delete" THEN deleted \cup {sess[s].chunk} ELSE deleted
  /\ UNCHANGED <<s3, resultgroup, clock, nreq>>
  /\ UNCHANGED notlease

\* the row of a group that has been deleted
NoGroup == [name |-> None, chunk_size |-> 0, error |-> "deleted", msg |-> "null",
            resolved |-> None]

\* the ResultBlob rows of a group that other sessions can see
Committed(group_id) ==
  IF resultgroup[group_id].error = "null" THEN {}
  ELSE {b \in resultblob : b.group_id = group_id}

\* populate_chunks, db.py 270-286: the transaction of the export task
\* commits, with the rows it flushed and the resolution of the group
populate_commit(g) ==
  /\ resultgroup[g].error = "null"
  /\ resultgroup' = [resultgroup EXCEPT ![g].error = "false", ![g].resolved = 0]
  /\ UNCHANGED <<s3, resultblob, rowlock, sess, clock, nreq, holders, deleted>>
  /\ UNCHANGED notlease

\* stream_delete, lines 211-229: look the group up by its name, whatever
\* its state, and select the uris of its chunks
stream_delete(s, token) ==
  /\ sess[s].pc \in {"idle", "done"}
  /\ nreq < MaxRequests
  /\ nreq' = nreq + 1
  /\ sess' = [sess EXCEPT ![s] =
       IF \A g \in GroupIds : resultgroup[g].name # token
       THEN [pc |-> "done", op |-> "delete_group", group |-> token, chunk |-> 0,
             result |-> "404", issued |-> None, start_free |-> {}, rivals |-> {},
             uris |-> {}, victims |-> {}]
       ELSE LET g == CHOOSE g \in GroupIds : resultgroup[g].name = token
            IN  [pc |-> "delete_objects", op |-> "delete_group", group |-> g,
                 chunk |-> 0, result |-> "none", issued |-> None,
                 start_free |-> {}, rivals |-> {},
                 uris |-> {b.uri : b \in Committed(g)}, victims |-> {}]]
  /\ UNCHANGED <<s3, resultgroup, resultblob, rowlock, clock, holders, deleted>>
  /\ UNCHANGED notlease

\* the next partition of the stream of uris: at most yield_per keys
Batch(uris) ==
  CHOOSE B \in SUBSET uris :
    /\ Cardinality(B) = IF Cardinality(uris) < yield_per
                        THEN Cardinality(uris) ELSE yield_per
    /\ \A x \in B : \A y \in uris \ B : x < y

\* what delete_objects can answer: every key deleted; status 200 with the
\* keys listed under Errors and left in place; a status of 300 or more
DeleteOutcomes == {"deleted", "errors", "status"}

\* lines 230-234: one delete_objects call per partition of the uris
stream_delete_objects(s, outcome) ==
  /\ sess[s].pc = "delete_objects"
  /\ sess[s].uris # {}
  /\ outcome \in DeleteOutcomes
  /\ s3' = IF outcome = "deleted"
           THEN [k \in DOMAIN s3 |->
                   IF k \in Batch(sess[s].uris) THEN NoObject ELSE s3[k]]
           ELSE s3
  /\ sess' = IF outcome = "status"
             THEN [sess EXCEPT ![s].pc = "done", ![s].result = "500"]
             ELSE [sess EXCEPT ![s].uris = @ \ Batch(sess[s].uris)]
  /\ UNCHANGED <<resultgroup, resultblob, rowlock, clock, nreq, holders, deleted>>
  /\ UNCHANGED notlease

\* lines 236-240: DELETE FROM resultblob WHERE group_id = :id, which waits
\* for the row locks of other sessions and locks the rows it deletes
stream_delete_rows(s) ==
  /\ sess[s].pc = "delete_objects"
  /\ sess[s].uris = {}
  /\ \A b \in Committed(sess[s].group) : rowlock[b.id] \in {0, s}
  /\ rowlock' = [c \in ResultBlobIds |->
                   IF c \in {b.id : b \in Committed(sess[s].group)} THEN s
                   ELSE rowlock[c]]
  /\ sess' = [sess EXCEPT ![s].pc = "commit_group",
                          ![s].victims = {b.id : b \in Committed(sess[s].group)}]
  /\ UNCHANGED <<s3, resultgroup, resultblob, clock, nreq, holders, deleted>>
  /\ UNCHANGED notlease

\* lines 241-242: session.delete(group); session.commit().  The delete of
\* the group row waits for an export task that holds flushed rows of the
\* group, and fails on the foreign key when a row of the group is left
stream_delete_commit(s) ==
  /\ sess[s].pc = "commit_group"
  /\ LET g == sess[s].group
         left == {b \in resultblob : b.group_id = g /\ b.id \notin sess[s].victims}
     IN  /\ resultgroup[g].error = "null" => left = {}
         /\ IF left # {}
            THEN /\ sess' = [sess EXCEPT ![s].pc = "done", ![s].result = "500"]
                 /\ UNCHANGED <<resultgroup, resultblob, deleted>>
            ELSE /\ sess' = [sess EXCEPT ![s].pc = "done", ![s].result = "ok"]
                 /\ resultblob' = {b \in resultblob : b.id \notin sess[s].victims}
                 /\ resultgroup' = [resultgroup EXCEPT ![g] = NoGroup]
                 /\ deleted' = deleted \cup sess[s].victims
  /\ rowlock' = [c \in ResultBlobIds |-> IF rowlock[c] = s THEN 0 ELSE rowlock[c]]
  /\ UNCHANGED <<s3, clock, nreq, holders>>
  /\ UNCHANGED notlease

NextLease ==
  \/ \E s \in Sessions, op \in Ops, t \in Tokens, c \in ResultBlobIds :
       request(s, op, t, c)
  \/ \E s \in Sessions : stream_claim_chunk(s)
  \/ \E s \in Sessions : get_blob(s)
  \/ \E s \in Sessions : stream_delete_chunk(s)
  \/ \E s \in Sessions : session_commit(s)
  \/ \E g \in GroupIds : populate_commit(g)
  \/ \E s \in Sessions, t \in Tokens : stream_delete(s, t)
  \/ \E s \in Sessions, o \in DeleteOutcomes : stream_delete_objects(s, o)
  \/ \E s \in Sessions : stream_delete_rows(s)
  \/ \E s \in Sessions : stream_delete_commit(s)

(***************************************************************************)
(* Properties of the lease protocol.                                       *)
(***************************************************************************)
\* a session whose claim request has been answered
ClaimAnswered(s) ==
  /\ sess[s].pc = "done"
  /\ sess[s].op = "claim"
  /\ sess[s].result \in {"ok", "204"}

\* two claims on one group, the second begun while the first was in its
\* transaction, both begun when c was the only unclaimed chunk of the group
ConcurrentClaims(s1, s2, c) ==
  /\ s1 # s2
  /\ ClaimAnswered(s1)
  /\ ClaimAnswered(s2)
  /\ sess[s1].group = sess[s2].group
  /\ s1 \in sess[s2].rivals
  /\ sess[s1].start_free = {c}
  /\ sess[s2].start_free = {c}

\* C8: no chunk is handed to two claimants without a release in between,
\* and of two concurrent claims on a group with exactly one unclaimed chunk
\* exactly one receives the chunk and the other receives none.
C8_ClaimExclusive ==
  /\ \A c \in ResultBlobIds : holders[c] <= 1
  /\ \A s1, s2 \in Sessions : \A c \in ResultBlobIds :
       ConcurrentClaims(s1, s2, c) =>
         \/ /\ sess[s1].result = "ok" /\ sess[s1].chunk = c
            /\ sess[s2].result = "204"
         \/ /\ sess[s2].result = "ok" /\ sess[s2].chunk = c
            /\ sess[s1].result = "204"

C8_Witness ==
  \E s1, s2 \in Sessions : \E c \in ResultBlobIds :
    /\ ConcurrentClaims(s1, s2, c)
    /\ sess[s2].result = "ok"
    /\ sess[s1].result = "204"
    /\ holders[c] = 1

\* C9: when a release commits the chunk's issued is NULL; when a delete
\* commits the row is gone, stays gone, and no later claim selects the chunk.
C9_ReleaseAndDelete ==
  /\ [](\A c \in deleted : \A b \in resultblob : b.id # c)
  /\ [][\A s \in Sessions :
          /\ (sess[s].pc = "commit" /\ sess'[s].pc = "done" /\ sess[s].op = "release") =>
               \E b \in resultblob' : b.id = sess[s].chunk /\ b.issued = None
          /\ (sess[s].pc = "commit" /\ sess'[s].pc = "done" /\ sess[s].op = "delete") =>
               \A b \in resultblob' : b.id # sess[s].chunk
          /\ (sess[s].pc = "select" /\ sess'[s].pc = "commit") =>
               sess'[s].chunk \notin deleted]_vars

\* the only chunk of a group is claimed, released and claimed again
C9_Witness ==
  \E s, r \in Sessions : \E c \in ResultBlobIds :
    /\ ClaimAnswered(s)
    /\ sess[s].result = "ok"
    /\ sess[s].chunk = c
    /\ sess[s].issued = 2
    /\ {b.id : b \in {x \in resultblob : x.group_id = sess[s].group}} = {c}
    /\ sess[r].pc = "done"
    /\ sess[r].op = "release"
    /\ sess[r].chunk = c
    /\ sess[r].result = "ok"

\* session s commits the transaction of a chunk operation
Commits(s, ops) ==
  /\ sess[s].pc = "commit"
  /\ sess'[s].pc = "done"
  /\ sess[s].op \in ops

\* session s commits a deletion of a group that takes chunk c with it
DeletesGroupOf(s, c) ==
  /\ sess[s].pc = "commit_group"
  /\ sess'[s].pc = "done"
  /\ c \in sess[s].victims

\* the claim of session s takes one unissued chunk and sets its issued
ClaimsOne(s) ==
  /\ (sess[s].pc = "select" /\ sess'[s].pc = "commit") =>
       \E b \in resultblob : b.id = sess'[s].chunk /\ b.issued = None
  /\ Commits(s, {"claim"}) =>
       \E b \in resultblob :
         /\ b.id = sess[s].chunk
         /\ b.issued = None
         /\ sess[s].issued # None
         /\ resultblob' = (resultblob \ {b})
                            \cup {[b EXCEPT !.issued = sess[s].issued]}

\* an issued row stays as it is unless a release or a delete commits
StaysIssued(b) ==
  \/ b \in resultblob'
  \/ \E s \in Sessions :
       \/ Commits(s, {"release", "delete"}) /\ sess[s].chunk = b.id
       \/ DeletesGroupOf(s, b.id)

\* C26: a claim selects a chunk whose issued is NULL and, when it commits,
\* sets issued of that one row and changes no other row; a row whose issued
\* is set keeps it, whatever time passes, until a release or a delete of
\* the chunk or of its group commits
C26_LeaseNeverExpires ==
  [][(\A s \in Sessions : ClaimsOne(s))
       /\ (\A b \in resultblob : b.issued # None => StaysIssued(b))]_vars

\* a claim that raced with no other claim found every chunk of its group
\* issued and was answered 204
C26_Witness ==
  \E s \in Sessions :
    /\ ClaimAnswered(s)
    /\ sess[s].result = "204"
    /\ sess[s].rivals = {}
    /\ sess[s].start_free = {}
    /\ \E b \in resultblob : b.group_id = sess[s].group /\ b.issued # None
    /\ \A r \in Sessions \ {s} : sess[r].pc \in {"idle", "done"}

\* C27: of two claims on one group, the second begun while the first was
\* in its transaction, both begun when the group had two unclaimed chunks,
\* each receives a chunk, and the two chunks differ
C27_ConcurrentClaimsServed ==
  \A s1, s2 \in Sessions :
    (/\ s1 # s2
     /\ ClaimAnswered(s1)
     /\ ClaimAnswered(s2)
     /\ sess[s1].group = sess[s2].group
     /\ s1 \in sess[s2].rivals
     /\ Cardinality(sess[s1].start_free) >= 2
     /\ sess[s2].start_free = sess[s1].start_free) =>
       /\ sess[s1].result = "ok"
       /\ sess[s2].result = "ok"
       /\ sess[s1].chunk # sess[s2].chunk

\* a chunk operation arrives at session s
Arrives(s) ==
  /\ sess[s].pc \in {"idle", "done"}
  /\ sess'[s] # sess[s]
  /\ sess'[s].op \in Ops

\* what get_group must answer to the token of the request of session s
Answered(s) ==
  LET token == sess'[s].group
  IN  IF \A g \in GroupIds : resultgroup[g].name # token
      THEN sess'[s].pc = "done" /\ sess'[s].result = "404"
      ELSE LET g == CHOOSE g \in GroupIds : resultgroup[g].name = token
           IN  CASE resultgroup[g].error = "null" ->
                      sess'[s].pc = "done" /\ sess'[s].result = "423"
                 [] resultgroup[g].error = "true" ->
                      /\ sess'[s].pc = "done"
                      /\ sess'[s].result = "424"
                      /\ sess'[s].detail = resultgroup[g].msg
                 [] OTHER -> sess'[s].pc \in {"select", "get_blob"}

\* session s looks for a chunk that is not a chunk of its group
ForeignChunk(s) ==
  /\ sess[s].pc = "get_blob"
  /\ sess'[s] # sess[s]
  /\ \A b \in resultblob : ~(b.id = sess[s].chunk /\ b.group_id = sess[s].group)

\* a step of session s that rejects a request answers as get_group and
\* get_blob do and changes no chunk row and no object
RejectsCleanly(s) ==
  /\ Arrives(s) =>
       /\ Answered(s)
       /\ resultblob' = resultblob
       /\ s3' = s3
  /\ ForeignChunk(s) =>
       /\ sess'[s].pc = "done"
       /\ sess'[s].result = "404"
       /\ resultblob' = resultblob
       /\ s3' = s3

\* C28: a chunk operation goes on only for a group that has finished
\* without error and only for a chunk of that group; an unknown token is
\* answered 404, a pending group 423, a failed group 424 with its msg and a
\* chunk of another group 404, and a rejected request changes no chunk row
\* and no object
C28_OnlyFinishedGroups ==
  /\ [](\A s \in Sessions :
          (sess[s].pc \in {"s3_delete", "commit"} /\ sess[s].op \in Ops) =>
            /\ resultgroup[sess[s].group].error = "false"
            /\ \E b \in resultblob :
                 b.id = sess[s].chunk /\ b.group_id = sess[s].group)
  /\ [][\A s \in Sessions : RejectsCleanly(s)]_vars

\* one request was rejected for a pending group and another for a chunk
\* that belongs to another group, and every row and object is in place
C28_Witness ==
  \E s1, s2 \in Sessions :
    /\ sess[s1].pc = "done" /\ sess[s1].op \in Ops /\ sess[s1].result = "423"
    /\ sess[s2].pc = "done" /\ sess[s2].op \in {"get", "release", "delete"}
    /\ sess[s2].result = "404"
    /\ resultgroup[1].name = sess[s2].group
    /\ \E b \in resultblob : b.id = sess[s2].chunk /\ b.group_id = 2
    /\ \A c \in ResultBlobIds :
         /\ s3[c] # NoObject
         /\ \E b \in resultblob : b.id = c /\ b.issued = None

\* C29: a chunk whose row is gone has no object left, and a group whose row
\* is gone has no chunk row left
C29_ObjectsGoBeforeRows ==
  /\ \A c \in ResultBlobIds :
       (\A b \in resultblob : b.id # c) => s3[c] = NoObject
  /\ \A g \in GroupIds :
       resultgroup[g] = NoGroup => \A b \in resultblob : b.group_id # g

\* the lease protocol alone, over an archive that is not ingesting
SpecLease == InitLease /\ [][NextLease]_vars

(***************************************************************************)
(* Export of search results (db.py store_search_results, populate_chunks). *)
(***************************************************************************)
\* records matching the query
MaxExport == 5
\* schema ids of the archived records
MaxExportSchema == 2
\* chunk_size of the result group
MaxChunkSize == 2

\* the i-th archived alert
ExportAlert(i) ==
  [diaSource |-> [diaSourceId |-> i, diaObjectId |-> 0, ssObjectId |-> 0,
                  midpointMjdTai |-> 100 + i, ra |-> 0, dec |-> 0],
   diaObject |-> <<>>, ssSource |-> <<>>, MPCORB |-> <<>>]

\* the positions of a sequence of schema ids that hold schema k
Positions(schemas, k) == {i \in 1..Len(schemas) : schemas[i] = k}

RECURSIVE Sorted(_)
\* a set of numbers in increasing order
Sorted(S) ==
  IF S = {} THEN <<>>
  ELSE LET m == CHOOSE x \in S : \A y \in S : x <= y
       IN  <<m>> \o Sorted(S \ {m})

\* the blob an ingest wrote for the records of schema k
SourceBlob(schemas, k) ==
  LET ids == Sorted(Positions(schemas, k))
  IN  pack_records(k, [j \in 1..Len(ids) |-> ExportAlert(ids[j])], k)

\* uri of the chunk-th chunk of the group: group/<name>/<chunk>.avro
ChunkUri(chunk) == 10 + chunk

\* an archive holding one record per entry of `schemas`, the records of each
\* schema in one blob
InitArchive(schemas) ==
  /\ avroschema = {[id |-> k, content |-> k] : k \in 1..MaxExportSchema}
  /\ AVRO_SCHEMAS = {}
  /\ avroblob = {[id |-> k, schema_id |-> k, uri |-> k,
                  count |-> Cardinality(Positions(schemas, k)),
                  size |-> Len(SourceBlob(schemas, k).packed), refcount |-> 0] :
                   k \in {schemas[i] : i \in 1..Len(schemas)}}
  /\ alert = {LET k == schemas[i]
                  ids == Sorted(Positions(schemas, k))
                  j == CHOOSE j \in 1..Len(ids) : ids[j] = i
                  r == SourceBlob(schemas, k).ranges[j]
              IN  Alert_from_record(ExportAlert(i), k, r[1], r[2]) :
                i \in 1..Len(schemas)}
  /\ diaobject = {}
  /\ ssobject = {}
  /\ avroblob_seq = MaxExportSchema
  /\ call = IdleCall
  /\ ncalls = 0
  /\ ingests = <<>>
  /\ s3 = [u \in (1..MaxExportSchema) \cup {ChunkUri(c) : c \in 0..MaxExport} |->
             IF u \in {schemas[i] : i \in 1..Len(schemas)}
             THEN SourceBlob(schemas, u).packed
             ELSE NoObject]

\* get_blobs_with_condition: the join of Alert and AvroBlob, in id order
get_blobs_with_condition ==
  LET ids == Sorted({a.id : a \in alert})
  IN  [j \in 1..Len(ids) |->
         LET a == CHOOSE a \in alert : a.id = ids[j]
             b == CHOOSE b \in avroblob : b.id = a.avro_blob_id
         IN  [uri |-> b.uri, start |-> a.avro_blob_start,
              end |-> a.avro_blob_end, schema_id |-> b.schema_id, id |-> a.id]]

\* the smaller of two numbers
Min(a, b) == IF a < b THEN a ELSE b

\* get_range: GET with Range: bytes=start-end, both offsets inclusive
get_range(key, start, end) ==
  SubSeq(s3[key], start + 1, Min(end + 1, Len(s3[key])))

RECURSIVE SpliceBlocks(_, _)
\* the loop of pack_blocks: each block without its last SYNC_SIZE + 1 bytes,
\* followed by the new sync marker
SpliceBlocks(blocks, marker) ==
  IF blocks = <<>> THEN <<>>
  ELSE SubSeq(Head(blocks), 1, Len(Head(blocks)) - SYNC_SIZE - 1)
         \o [i \in 1..SYNC_SIZE |-> <<"sync", marker, i>>]
         \o SpliceBlocks(Tail(blocks), marker)

\* pack_blocks(schema, blocks)
pack_blocks(schema_id, blocks, marker) ==
  Header(schema_id, marker) \o SpliceBlocks(blocks, marker)

\* the group app.py creates for a query, line 217, with the chunk size n
PendingGroup(n) ==
  [name |-> 1, chunk_size |-> n, error |-> "null", msg |-> "null", resolved |-> None]

\* the group of an earlier query, resolved
OtherGroup ==
  [name |-> 2, chunk_size |-> 1, error |-> "false", msg |-> "null", resolved |-> 0]

\* what can happen to a pass of the loop: nothing, the ranged GET fails, the
\* PUT of the chunk fails, the flush of the ResultBlob row fails
Outcomes == {"ok", "get_fails", "put_fails", "flush_fails"}

InitExport ==
  /\ \E schemas \in {<<>>} \cup SeqsUpTo(1..MaxExportSchema, MaxExport) :
       InitArchive(schemas)
  /\ resultgroup \in {[g \in 1..2 |-> IF g = 1 THEN PendingGroup(n) ELSE OtherGroup] :
                        n \in 1..MaxChunkSize}
  /\ resultblob = {}
  /\ resultblob_seq = 0
  /\ rowlock = <<>>
  /\ sess = <<>>
  /\ clock = 0
  /\ nreq = 0
  /\ holders = <<>>
  /\ deleted = {}
  /\ export = [pc |-> "idle"]
  /\ ParkedIngest
  /\ ParkedCodec
  /\ ParkedSchema
  /\ ParkedQuery

\* populate_chunks starts store_search_results: lines 230-234
populate_chunks(group_id) ==
  /\ export.pc = "idle"
  /\ resultgroup[group_id].error = "null"
  /\ export' = [pc |-> "loop",
                group |-> group_id,
                stream |-> get_blobs_with_condition,
                pos |-> 1,
                bodies |-> <<>>,
                members |-> <<>>,
                last_schema_id |-> None,
                schema_id |-> None,
                chunk_size |-> resultgroup[group_id].chunk_size,
                count |-> 1,
                chunk |-> 0,
                rows |-> <<>>,
                written |-> <<>>,
                exc |-> "null",
                active |-> TRUE,
                propagated |-> FALSE]
  /\ UNCHANGED <<s3, dwvars, leasevars, resultblob_seq>>
  /\ UNCHANGED notexport

\* the ResultBlob row of flush(), lines 241-247
flush_row(e, id, blob) ==
  [id |-> id,
   schema_id |-> IF e.last_schema_id # None THEN e.last_schema_id ELSE e.schema_id,
   group_id |-> e.group,
   uri |-> ChunkUri(e.chunk),
   count |-> Len(e.bodies),
   size |-> Len(blob),
   issued |-> None]

\* the blob of flush(), line 237
flush_blob(e) == pack_blocks(e.schema_id, e.bodies, 100 + e.chunk)

\* the test of lines 256-258
must_flush(e) ==
  \/ (e.last_schema_id # None /\ e.schema_id # e.last_schema_id)
  \/ e.count >= e.chunk_size

\* store_search_results raises out of get_range (s3.py 52-58) or out of the
\* PUT of store_alert_chunk (db.py 75-85): nothing is written
raise_unwritten(e, outcome) ==
  /\ export' = [e EXCEPT !.pc = "raised", !.exc = outcome]
  /\ UNCHANGED <<s3, resultblob_seq, AVRO_SCHEMAS>>

\* store_alert_chunk, db.py 87-92: the flush of the row fails after the PUT;
\* the object is deleted and the transaction of the session is over, taking
\* the rows flushed before with it
raise_flush(e) ==
  /\ s3' = [s3 EXCEPT ![ChunkUri(e.chunk)] = NoObject]
  /\ export' = [e EXCEPT !.pc = "raised", !.exc = "flush_fails",
                         !.rows = <<>>, !.active = FALSE]
  /\ UNCHANGED <<resultblob_seq, AVRO_SCHEMAS>>

\* flush() of store_search_results succeeds, lines 236-249
flush_ok(e) ==
  /\ s3' = [s3 EXCEPT ![ChunkUri(e.chunk)] = flush_blob(e)]
  /\ resultblob_seq' = resultblob_seq + 1
  /\ AVRO_SCHEMAS' = get_schema_cache(e.schema_id)

\* one pass of the loop of store_search_results, lines 251-264
store_search_results_next(outcome) ==
  /\ export.pc = "loop"
  /\ export.pos <= Len(export.stream)
  /\ LET item == export.stream[export.pos]
         e == [export EXCEPT
                 !.bodies = Append(@, get_range(item.uri, item.start, item.end)),
                 !.members = Append(@, item.id),
                 !.schema_id = item.schema_id]
     IN  CASE outcome = "get_fails" -> raise_unwritten(export, outcome)
           [] outcome = "put_fails" -> must_flush(e) /\ raise_unwritten(e, outcome)
           [] outcome = "flush_fails" -> must_flush(e) /\ raise_flush(e)
           [] outcome = "ok" /\ must_flush(e) ->
                /\ flush_ok(e)
                /\ export' = [e EXCEPT
                     !.rows = Append(@, flush_row(e, resultblob_seq + 1, flush_blob(e))),
                     !.written = Append(@, e.members),
                     !.bodies = <<>>,
                     !.members = <<>>,
                     !.count = 1,
                     !.chunk = @ + 1,
                     !.last_schema_id = item.schema_id,
                     !.pos = @ + 1]
           [] outcome = "ok" /\ ~must_flush(e) ->
                /\ export' = [e EXCEPT !.last_schema_id = item.schema_id,
                                       !.pos = @ + 1]
                /\ UNCHANGED <<s3, resultblob_seq, AVRO_SCHEMAS>>
  /\ UNCHANGED <<avroschema, avroblob, alert, diaobject, ssobject, avroblob_seq,
                 call, ncalls, ingests>>
  /\ UNCHANGED leasevars
  /\ UNCHANGED notexport

\* the end of the stream, lines 266-267: flush what is left
store_search_results_end(outcome) ==
  /\ export.pc = "loop"
  /\ export.pos > Len(export.stream)
  /\ outcome # "get_fails"
  /\ CASE export.bodies = <<>> ->
            /\ outcome = "ok"
            /\ export' = [export EXCEPT !.pc = "resolve"]
            /\ UNCHANGED <<s3, resultblob_seq, AVRO_SCHEMAS>>
       [] export.bodies # <<>> /\ outcome = "put_fails" ->
            raise_unwritten(export, outcome)
       [] export.bodies # <<>> /\ outcome = "flush_fails" -> raise_flush(export)
       [] export.bodies # <<>> /\ outcome = "ok" ->
            /\ flush_ok(export)
            /\ export' = [export EXCEPT
                 !.pc = "resolve",
                 !.rows = Append(@, flush_row(export, resultblob_seq + 1,
                                              flush_blob(export))),
                 !.written = Append(@, export.members)]
  /\ UNCHANGED <<avroschema, avroblob, alert, diaobject, ssobject, avroblob_seq,
                 call, ncalls, ingests>>
  /\ UNCHANGED leasevars
  /\ UNCHANGED notexport

\* populate_chunks, lines 281-282 and 286, and the exit of get_session: the
\* group is marked resolved; the commit writes the group and the chunk rows,
\* and a commit that fails raises out of populate_chunks
populate_chunks_resolve(ok) ==
  /\ export.pc = "resolve"
  /\ IF ok
     THEN /\ resultgroup' = [resultgroup EXCEPT ![export.group].error = "false",
                                                ![export.group].resolved = 1]
          /\ resultblob' = resultblob \cup {export.rows[i] : i \in 1..Len(export.rows)}
          /\ export' = [export EXCEPT !.pc = "done"]
     ELSE /\ export' = [export EXCEPT !.pc = "done", !.rows = <<>>,
                                      !.exc = "commit_fails", !.propagated = TRUE]
          /\ UNCHANGED <<resultgroup, resultblob>>
  /\ UNCHANGED <<s3, dwvars, resultblob_seq, rowlock, sess, clock, nreq, holders,
                 deleted>>
  /\ UNCHANGED notexport

\* populate_chunks, lines 283-286, and the exit of get_session: the group is
\* marked failed.  With the transaction still active the exit commits the
\* group and the rows flushed so far (ok) or the commit raises; after a
\* failed flush the transaction is over, the exit has nothing to commit, and
\* whether it returns or raises is the library's choice (raises)
populate_chunks_except(ok, raises) ==
  /\ export.pc = "raised"
  /\ IF export.active /\ ok
     THEN /\ ~raises
          /\ resultgroup' = [resultgroup EXCEPT ![export.group].error = "true",
                                                ![export.group].msg = export.exc]
          /\ resultblob' = resultblob \cup {export.rows[i] : i \in 1..Len(export.rows)}
          /\ export' = [export EXCEPT !.pc = "done"]
     ELSE /\ export.active => raises
          /\ ~export.active => ok
          /\ export' = [export EXCEPT !.pc = "done", !.rows = <<>>,
                                      !.propagated = raises]
          /\ UNCHANGED <<resultgroup, resultblob>>
  /\ UNCHANGED <<s3, dwvars, resultblob_seq, rowlock, sess, clock, nreq, holders,
                 deleted>>
  /\ UNCHANGED notexport

NextExport ==
  \/ \E g \in DOMAIN resultgroup : populate_chunks(g)
  \/ \E outcome \in Outcomes : store_search_results_next(outcome)
  \/ \E outcome \in Outcomes : store_search_results_end(outcome)
  \/ \E ok \in BOOLEAN : populate_chunks_resolve(ok)
  \/ \E ok, raises \in BOOLEAN : populate_chunks_except(ok, raises)

\* one export task over an archive
SpecExport == InitExport /\ [][NextExport]_vars

\* the ids of the records the query matches that carry each schema
StreamSchemas == [i \in 1..Len(export.stream) |-> export.stream[i].schema_id]

\* C10: no chunk written by store_search_results holds more than chunk_size
\* records, and for chunk_size 2 and five matching records whose schema
\* changes after the third the chunks are [1,2], [3], [4,5].
C10_ChunksWithinSize ==
  export.pc # "idle" =>
    /\ \A i \in 1..Len(export.rows) : export.rows[i].count <= export.chunk_size
    /\ (/\ export.pc = "done"
        /\ export.exc = "null"
        /\ export.chunk_size = 2
        /\ StreamSchemas = <<1, 1, 1, 2, 2>>) =>
         export.written = << <<1, 2>>, <<3>>, <<4, 5>> >>

\* the schema under which the archive holds the record with the given id
RecordSchema(id) ==
  LET j == CHOOSE j \in 1..Len(export.stream) : export.stream[j].id = id
  IN  export.stream[j].schema_id

\* C11: every chunk written by store_search_results is schema-homogeneous:
\* all records packed into its blob were stored under the schema its
\* ResultBlob row names.
C11_SchemaHomogeneous ==
  (export.pc # "idle" /\ Len(export.rows) = Len(export.written)) =>
    \A i \in 1..Len(export.rows) :
      \A k \in 1..Len(export.written[i]) :
        RecordSchema(export.written[i][k]) = export.rows[i].schema_id

\* a result group in a terminal state
Terminal(group) ==
  \/ group.error = "false" /\ group.resolved # None
  \/ group.error = "true" /\ group.msg # "null"

\* C12: populate_chunks propagates no exception and ends with its group in
\* a terminal state (error false and resolved set, or error true and msg
\* set), and leaves every other group as it was.
C12_GroupEndsTerminal ==
  /\ export.pc = "done" =>
       /\ ~export.propagated
       /\ Terminal(resultgroup[export.group])
  /\ resultgroup[2] = OtherGroup

\* the schema id in the metadata of a container header
HeaderSchema(packed) == packed[5][2]

\* C31: for every chunk store_search_results wrote, the schema in the
\* container header of its object is the schema its ResultBlob row names,
\* also for a chunk flushed because the schema of the stream changed.
C31_HeaderSchemaIsRowSchema ==
  export.pc # "idle" =>
    \A i \in 1..Len(export.rows) :
      HeaderSchema(s3[export.rows[i].uri]) = export.rows[i].schema_id

\* block[: -SYNC_SIZE - 1] of pack_blocks, line 82
StripTail(block) == SubSeq(block, 1, Len(block) - SYNC_SIZE - 1)

\* the bytes of the frame of the archived record with the given id: count,
\* size and the whole payload, without the sync marker
FrameBytes(id) ==
  << <<"long", 1, 0>>, <<"long", PayloadLen(ExportAlert(id)), 0>> >>
    \o [k \in 1..PayloadLen(ExportAlert(id)) |->
         <<"data", AlertKey(ExportAlert(id)), k>>]

\* C32: for every record pointer, the last record of a blob included, the
\* bytes the export gets with the ranged GET bytes=start-end are, once
\* pack_blocks has cut its fixed tail, exactly the frame of that record:
\* count, size and the whole payload, and no byte of the sync marker.
C32_RangeMinusTailIsFrame ==
  export.pc # "idle" =>
    \A k \in 1..Len(export.bodies) :
      StripTail(export.bodies[k]) = FrameBytes(export.members[k])

(***************************************************************************)
(* The block codec on its own (avro.py): pack_records, extract_record and  *)
(* pack_blocks, called on containers of pool alerts.                       *)
(***************************************************************************)
\* containers one caller packs
MaxContainers == 2
\* blocks one caller splices
MaxSplice == 2

\* a table of block readers that knows every name
BLOCK_READERS_any == {"null", "zstandard", "lz5"}

\* fastavro's BLOCK_READERS, by codec name
BLOCK_READERS == {"null", "zstandard"}

\* the codec names a caller passes
CodecNames == {"zstandard", "lz5"}

\* every record the model serializes
Records ==
  {AlertPool[i] : i \in 1..Len(AlertPool)} \cup {ExportAlert(i) : i \in 1..MaxExport}

RECURSIVE Payloads(_)
\* the compressed payloads of a sequence of records, one after the other
Payloads(records) ==
  IF records = <<>> THEN <<>>
  ELSE [i \in 1..PayloadLen(Head(records)) |-> <<"data", AlertKey(Head(records)), i>>]
         \o Payloads(Tail(records))

\* one block of fastavro.writer: record count, payload size, payload, sync
BlockOf(records, marker) ==
  << <<"long", Len(records), 0>>, <<"long", Len(Payloads(records)), 0>> >>
    \o Payloads(records)
    \o [i \in 1..SYNC_SIZE |-> <<"sync", marker, i>>]

RECURSIVE WriteBlocksBy(_, _, _)
\* the blocks of fastavro.writer when it closes a block every per_block
\* records; sync_interval = 0 is per_block = 1
WriteBlocksBy(records, marker, per_block) ==
  IF records = <<>> THEN <<>>
  ELSE LET n == IF Len(records) < per_block THEN Len(records) ELSE per_block
       IN  BlockOf(SubSeq(records, 1, n), marker)
             \o WriteBlocksBy(SubSeq(records, n + 1, Len(records)), marker, per_block)

RECURSIVE block_reader(_, _)
\* fastavro.block_reader: offsets and record count of each block
block_reader(packed, start) ==
  IF start >= Len(packed) THEN <<>>
  ELSE LET size == packed[start + 2][2]
           end == start + 2 + size + SYNC_SIZE
       IN  <<[start |-> start, end |-> end, count |-> packed[start + 1][2]]>>
             \o block_reader(packed, end)

\* pack_records without the check of line 57
pack_records_by_unchecked(schema_id, records, marker, per_block) ==
  LET packed == Header(schema_id, marker) \o WriteBlocksBy(records, marker, per_block)
      blocks == block_reader(packed, Len(Header(schema_id, marker)))
  IN  [error |-> "null", packed |-> packed,
       ranges |-> [i \in 1..Len(blocks) |-> <<blocks[i].start, blocks[i].end>>],
       blocks |-> blocks]

\* pack_records with the writer closing a block every per_block records:
\* lines 40-62, the check of line 57 included
pack_records_by(schema_id, records, marker, per_block) ==
  LET packed == Header(schema_id, marker) \o WriteBlocksBy(records, marker, per_block)
      blocks == block_reader(packed, Len(Header(schema_id, marker)))
  IN  IF \E i \in 1..Len(blocks) : blocks[i].count # 1
      THEN [error |-> "ValueError", packed |-> packed, ranges |-> <<>>,
            blocks |-> blocks]
      ELSE [error |-> "null", packed |-> packed,
            ranges |-> [i \in 1..Len(blocks) |-> <<blocks[i].start, blocks[i].end>>],
            blocks |-> blocks]

\* Python's bytes[start:end]
Slice(bytes, start, end) == SubSeq(bytes, start + 1, Min(end, Len(bytes)))

\* the record a payload starts with, or an error: the bytes are those the
\* writer made for one record, all of them
schemaless_reader(payload) ==
  IF payload = <<>> \/ payload[1][1] # "data" THEN [error |-> "EOFError", record |-> <<>>]
  ELSE LET a == CHOOSE a \in Records : AlertKey(a) = payload[1][2]
       IN  IF /\ Len(payload) >= PayloadLen(a)
              /\ \A i \in 1..PayloadLen(a) : payload[i] = <<"data", AlertKey(a), i>>
           THEN [error |-> "null", record |-> <<a>>]
           ELSE [error |-> "EOFError", record |-> <<>>]

\* extract_record that does not consume the record count before the block
extract_record_no_count(block, codecname) ==
  IF codecname \notin BLOCK_READERS THEN [error |-> "KeyError", record |-> <<>>, read |-> 0]
  ELSE IF Len(block) < 1 \/ block[1][1] # "long"
  THEN [error |-> "EOFError", record |-> <<>>, read |-> 1]
  ELSE IF Len(block) < 1 + block[1][2]
  THEN [error |-> "EOFError", record |-> <<>>, read |-> Len(block)]
  ELSE LET r == schemaless_reader(SubSeq(block, 2, 1 + block[1][2]))
       IN  [error |-> r.error, record |-> r.record, read |-> 1 + block[1][2]]

\* extract_record(block, schema, codec), lines 16-33
extract_record(block, codecname) ==
  IF codecname \notin BLOCK_READERS THEN [error |-> "KeyError", record |-> <<>>, read |-> 0]
  ELSE IF Len(block) < 2 \/ block[1][1] # "long" \/ block[2][1] # "long"
  THEN [error |-> "EOFError", record |-> <<>>, read |-> 1]
  ELSE IF block[1][2] # 1
  THEN [error |-> "AssertionError", record |-> <<>>, read |-> 1]
  ELSE IF Len(block) < 2 + block[2][2]
  THEN [error |-> "EOFError", record |-> <<>>, read |-> Len(block)]
  ELSE LET r == schemaless_reader(SubSeq(block, 3, 2 + block[2][2]))
       IN  [error |-> r.error, record |-> r.record, read |-> 2 + block[2][2]]

RECURSIVE read_blocks(_, _, _)
\* fastavro.reader over the blocks of a container from offset start: the
\* frames (count, size, payload) up to the first block it cannot read
read_blocks(packed, start, marker) ==
  IF start >= Len(packed) THEN [error |-> "null", frames |-> <<>>]
  ELSE IF \/ Len(packed) < start + 2
          \/ packed[start + 1][1] # "long" \/ packed[start + 2][1] # "long"
          \/ Len(packed) < start + 2 + packed[start + 2][2] + SYNC_SIZE
  THEN [error |-> "EOFError", frames |-> <<>>]
  ELSE LET size == packed[start + 2][2]
           end == start + 2 + size + SYNC_SIZE
           frame == [count |-> packed[start + 1][2], size |-> size,
                     payload |-> SubSeq(packed, start + 3, start + 2 + size)]
       IN  IF SubSeq(packed, start + 3 + size, end)
                # [i \in 1..SYNC_SIZE |-> <<"sync", marker, i>>]
           THEN [error |-> "ValueError", frames |-> <<>>]
           ELSE LET rest == read_blocks(packed, end, marker)
                IN  [error |-> rest.error, frames |-> <<frame>> \o rest.frames]

\* the frames of a container whose header carries the given sync marker
read_container(packed, schema_id, marker) ==
  IF SubSeq(packed, 1, Len(Header(schema_id, marker))) # Header(schema_id, marker)
  THEN [error |-> "ValueError", frames |-> <<>>]
  ELSE read_blocks(packed, Len(Header(schema_id, marker)), marker)

\* a container a caller packed
Container(schema_id, records, marker, per_block) ==
  LET p == pack_records_by(schema_id, records, marker, per_block)
  IN  [schema_id |-> schema_id, records |-> records, marker |-> marker,
       per_block |-> per_block, error |-> p.error, packed |-> p.packed,
       ranges |-> p.ranges, blocks |-> p.blocks]

InitCodec ==
  /\ codec = [pc |-> "pack", containers |-> <<>>, extracted |-> <<>>, spliced |-> <<>>]
  /\ s3 = [k \in Keys |-> NoObject]
  /\ ParkedDW
  /\ ParkedLease
  /\ ParkedExport
  /\ ParkedIngest
  /\ ParkedSchema
  /\ ParkedQuery

\* a caller packs records: pack_records, lines 36-62; only the first
\* container may come from a writer that does not close every block
codec_pack(schema_id, records, per_block) ==
  /\ codec.pc = "pack"
  /\ Len(codec.containers) < MaxContainers
  /\ per_block > 1 => codec.containers = <<>>
  /\ codec' = [codec EXCEPT !.containers =
                  Append(@, Container(schema_id, records, Len(@) + 1, per_block))]
  /\ UNCHANGED notcodec

\* a caller extracts the record of one block of one container:
\* extract_record on packed[start:end], as test_pack_alerts does
codec_extract(c, i, codecname) ==
  /\ codec.pc = "pack"
  /\ c \in 1..Len(codec.containers)
  /\ i \in 1..Len(codec.containers[c].blocks)
  /\ LET b == codec.containers[c].blocks[i]
         block == Slice(codec.containers[c].packed, b.start, b.end)
     IN  codec' = [codec EXCEPT !.pc = "extracted",
                     !.extracted = <<[container |-> c, index |-> i,
                                      codec |-> codecname, block |-> block,
                                      out |-> extract_record(block, codecname)]>>]
  /\ UNCHANGED notcodec

\* the blocks a sequence of (container, index) pairs names, each the bytes
\* of the range pack_records returned
SourceBlocks(containers, sources) ==
  [k \in 1..Len(sources) |->
     LET c == containers[sources[k][1]]
         r == c.ranges[sources[k][2]]
     IN  Slice(c.packed, r[1], r[2])]

\* a caller splices blocks of its containers: pack_blocks, lines 65-84
codec_splice(schema_id, sources) ==
  /\ codec.pc = "pack"
  /\ \A k \in 1..Len(sources) :
       /\ sources[k][1] \in 1..Len(codec.containers)
       /\ sources[k][2] \in 1..Len(codec.containers[sources[k][1]].ranges)
  /\ codec' = [codec EXCEPT !.pc = "spliced",
                 !.spliced = <<[schema_id |-> schema_id, sources |-> sources,
                                blob |-> pack_blocks(schema_id,
                                           SourceBlocks(codec.containers, sources),
                                           9)]>>]
  /\ UNCHANGED notcodec

NextCodec ==
  \/ \E id \in SchemaIds, c \in Chunks, n \in 1..2 : codec_pack(id, c, n)
  \/ \E c \in 1..MaxContainers, i \in 1..MaxChunkLen, n \in CodecNames :
       codec_extract(c, i, n)
  \/ \E id \in SchemaIds,
        src \in SeqsUpTo((1..MaxContainers) \X (1..MaxChunkLen), MaxSplice) :
       codec_splice(id, src)

\* callers of the codec alone
SpecCodec == InitCodec /\ [][NextCodec]_vars

\* C13: for a container pack_records returned, extract_record on the bytes
\* of the i-th range gives the i-th record, reading nothing past its frame.
C13_RoundTrip ==
  codec.pc = "extracted" =>
    LET x == codec.extracted[1]
        c == codec.containers[x.container]
    IN  (c.error = "null" /\ x.codec = "zstandard") =>
          /\ x.block = Slice(c.packed, c.ranges[x.index][1], c.ranges[x.index][2])
          /\ x.out.error = "null"
          /\ x.out.record = <<c.records[x.index]>>
          /\ x.out.read <= Len(x.block) - SYNC_SIZE

\* the second record of a container of two is extracted
C13_Witness ==
  /\ codec.pc = "extracted"
  /\ codec.containers[codec.extracted[1].container].error = "null"
  /\ Len(codec.containers[codec.extracted[1].container].records) = 2
  /\ codec.extracted[1].index = 2
  /\ codec.extracted[1].codec = "zstandard"
  /\ codec.extracted[1].out.record # <<>>

\* the frame (count, size, payload) the k-th source of a splice names
SourceFrame(k) ==
  LET src == codec.spliced[1].sources[k]
      a == codec.containers[src[1]].records[src[2]]
  IN  [count |-> 1, size |-> PayloadLen(a), payload |-> Payloads(<<a>>)]

\* C14: pack_blocks of the ranges pack_records returned gives a container
\* that reads frame by frame as the source frames, count, size and payload
\* bytes unchanged.
C14_SpliceKeepsFrames ==
  codec.pc = "spliced" =>
    LET sp == codec.spliced[1]
        rc == read_container(sp.blob, sp.schema_id, 9)
    IN  /\ rc.error = "null"
        /\ Len(rc.frames) = Len(sp.sources)
        /\ \A k \in 1..Len(sp.sources) : rc.frames[k] = SourceFrame(k)

\* C15: pack_records returns one range per record, in order, contiguous
\* from the end of the header to the end of the container, each range one
\* frame of one record; a frame of any other count makes it fail.
C15_RangesPartitionContainer ==
  \A n \in 1..Len(codec.containers) :
    LET c == codec.containers[n]
        hdr == Len(Header(c.schema_id, c.marker))
    IN  /\ c.error = "ValueError" <=> \E i \in 1..Len(c.blocks) : c.blocks[i].count # 1
        /\ c.error = "ValueError" => c.ranges = <<>>
        /\ c.per_block = 1 =>
              /\ c.error = "null"
              /\ pack_records(c.schema_id, c.records, c.marker) =
                    [packed |-> c.packed, ranges |-> c.ranges]
        /\ c.error = "null" =>
              /\ Len(c.ranges) = Len(c.records)
              /\ c.ranges[1][1] = hdr
              /\ c.ranges[Len(c.ranges)][2] = Len(c.packed)
              /\ \A i \in 1..(Len(c.ranges) - 1) : c.ranges[i][2] = c.ranges[i + 1][1]
              /\ \A i \in 1..Len(c.ranges) :
                    /\ c.ranges[i][1] < c.ranges[i][2]
                    /\ Slice(c.packed, c.ranges[i][1], c.ranges[i][2])
                         = BlockOf(<<c.records[i]>>, c.marker)

\* one container was refused for a frame of two records, another of two
\* records was packed
C15_Witness ==
  /\ Len(codec.containers) = 2
  /\ codec.containers[1].error = "ValueError"
  /\ codec.containers[2].error = "null"
  /\ Len(codec.containers[2].ranges) = 2

\* C20: extract_record with an unknown codec name fails before it reads
\* anything, and on a frame whose record count is not 1 it fails; neither
\* returns a record.
C20_ExtractRejects ==
  codec.pc = "extracted" =>
    LET x == codec.extracted[1]
    IN  /\ x.codec \notin {"null", "zstandard"} =>
              x.out = [error |-> "KeyError", record |-> <<>>, read |-> 0]
        /\ (x.codec \in {"null", "zstandard"} /\ x.block[1][2] # 1) =>
              /\ x.out.error = "AssertionError"
              /\ x.out.record = <<>>

\* a frame of two records was handed to extract_record
C20_Witness ==
  /\ codec.pc = "extracted"
  /\ codec.extracted[1].codec = "zstandard"
  /\ codec.extracted[1].block[1][2] = 2
  /\ codec.extracted[1].out.error = "AssertionError"

(***************************************************************************)
(* The chunks of an export, read back with the block codec.                *)
(***************************************************************************)
RECURSIVE Concat(_)
\* the members of the chunks, one after the other
Concat(chunks) ==
  IF chunks = <<>> THEN <<>> ELSE Head(chunks) \o Concat(Tail(chunks))

\* the ids of the matching records, in the order the index streamed them
StreamIds == [j \in 1..Len(export.stream) |-> export.stream[j].id]

\* the export task ended with its group resolved: store_search_results
\* returned and the session committed
ExportSucceeded ==
  /\ export.pc = "done"
  /\ export.exc = "null"
  /\ resultgroup[export.group].error = "false"

\* the frame fastavro wrote for the archived record with the given id
RecordFrame(id) ==
  [count |-> 1, size |-> PayloadLen(ExportAlert(id)),
   payload |-> [k \in 1..PayloadLen(ExportAlert(id)) |->
                  <<"data", AlertKey(ExportAlert(id)), k>>]]

\* the frames a reader finds in the object of the i-th chunk row
ChunkFrames(i) ==
  read_blocks(s3[export.rows[i].uri], Len(Header(0, 0)), 100 + i - 1)

\* the bookkeeping of store_search_results: every record is appended to one
\* chunk, in stream order, no flush is empty, a row counts its bodies and the
\* uris follow the chunk index
ExportChunksInStreamOrder ==
  ExportSucceeded =>
    /\ Len(export.rows) = Len(export.written)
    /\ Concat(export.written) = StreamIds
    /\ \A i \in 1..Len(export.rows) :
         /\ export.written[i] # <<>>
         /\ export.rows[i].count = Len(export.written[i])
         /\ export.rows[i].uri = ChunkUri(i - 1)
         /\ export.rows[i] \in resultblob
    /\ \A i, j \in 1..Len(export.rows) :
         i # j => export.rows[i].uri # export.rows[j].uri

\* an export of at least two chunks succeeded
ExportChunksWitness ==
  /\ ExportSucceeded
  /\ Len(export.rows) >= 2
  /\ Len(export.written[1]) >= 2

\* C30: on a successful export the chunks, read in chunk-index order, hold
\* every matching record exactly once and in stream order; no chunk is
\* empty, the count of a chunk row is the number of frames in its blob, and
\* the chunks have distinct uris group/<name>/<index>.avro.
C30_ChunksHoldEveryRecord ==
  /\ ExportChunksInStreamOrder
  /\ ExportSucceeded =>
       \A i \in 1..Len(export.rows) :
         /\ ChunkFrames(i).error = "null"
         /\ Len(ChunkFrames(i).frames) = export.rows[i].count
         /\ ChunkFrames(i).frames
              = [k \in 1..Len(export.written[i]) |-> RecordFrame(export.written[i][k])]

(***************************************************************************)
(* The ingestor (update.py main).                                          *)
(***************************************************************************)
\* partitions of the topic
MaxPartition == 2
\* messages in each partition
MaxOffset == 3
\* the option --chunk-size
chunk_size == 2
\* the option --timeout, in poll intervals
timeout == 4
\* the wall clock runs up to here, in poll intervals
MaxClock == 5
\* restarts of the ingestor process
MaxRestarts == 1

Partitions == 1..MaxPartition

\* line 154: max(1, int(timeout / interval / 2))
max_tries == IF timeout \div 2 >= 1 THEN timeout \div 2 ELSE 1

\* a partition whose messages change schema after the first one, or never
TopicLogs ==
  {[o \in 1..MaxOffset |-> IF o < k THEN 1 ELSE 2] : k \in {2, MaxOffset + 1}}

\* a fresh process: lines 75-94, 139-154
StartLoop(restarts, clk) ==
  [pc |-> "poll", tries |-> 0, msg |-> <<>>, clock |-> clk, stop |-> FALSE,
   restarts |-> restarts]

InitIngest ==
  /\ topic_log \in {[p \in Partitions |-> l] : l \in TopicLogs}
  /\ buffers = [p \in Partitions |-> <<>>]
  /\ consumer = [assigned |-> {},
                 position |-> [p \in Partitions |-> 0],
                 committed |-> [p \in Partitions |-> None]]
  /\ loop = StartLoop(0, 0)
  /\ polled = {}
  /\ flushed = {}
  /\ dropped = {}
  /\ s3 = [k \in Keys |-> NoObject]
  /\ ParkedDW
  /\ ParkedLease
  /\ ParkedExport
  /\ ParkedCodec
  /\ ParkedSchema
  /\ ParkedQuery

\* the rebalances a poll can serve: nothing, one partition assigned, one revoked
Rebalances ==
  {[kind |-> "none", partition |-> 0]}
    \cup {[kind |-> "assign", partition |-> p] : p \in Partitions \ consumer.assigned}
    \cup {[kind |-> "revoke", partition |-> p] : p \in consumer.assigned}

\* the buffers of a set of partitions, as flush and on_revoke log them
flush_log(bufs, keys) ==
  {[partition |-> p, start_offset |-> bufs[p][1].start_offset,
    end_offset |-> bufs[p][1].end_offset, records |-> bufs[p][1].records] :
     p \in keys}

\* on_revoke that drops every buffer
on_revoke_all(bufs, partitions) == [p \in Partitions |-> <<>>]

\* on_revoke, lines 96-108: drop the buffers of the revoked partitions
on_revoke(bufs, partitions) ==
  [p \in Partitions |-> IF p \in partitions THEN <<>> ELSE bufs[p]]

\* the partitions whose buffers lines 101-105 pop for a rebalance
revoke_log(bufs, r) ==
  IF r.kind = "revoke" /\ bufs[r.partition] # <<>> THEN {r.partition} ELSE {}

\* the broker's group state after a rebalance; a newly assigned partition
\* resumes at its committed offset, or at the earliest one (line 81)
rebalanced(c, r) ==
  CASE r.kind = "none" -> c
    [] r.kind = "assign" ->
         [c EXCEPT !.assigned = @ \cup {r.partition},
                   !.position[r.partition] =
                      IF c.committed[r.partition] # None
                      THEN c.committed[r.partition] ELSE 0]
    [] r.kind = "revoke" -> [c EXCEPT !.assigned = @ \ {r.partition}]

\* what the poll loop does after one poll: lines 158-162
after_poll(l) ==
  IF l.stop \/ l.tries + 1 >= max_tries
  THEN [l EXCEPT !.pc = "handle", !.tries = 0]
  ELSE [l EXCEPT !.tries = @ + 1]

\* consumer.poll(interval) times out, line 159: msg = None
poll_none(r) ==
  /\ loop.pc = "poll"
  /\ loop.clock < MaxClock
  /\ r \in Rebalances
  /\ consumer' = rebalanced(consumer, r)
  /\ buffers' = IF r.kind = "revoke" THEN on_revoke(buffers, {r.partition})
                ELSE buffers
  /\ loop' = after_poll([loop EXCEPT !.msg = <<>>, !.clock = @ + 1])
  /\ dropped' = dropped \cup revoke_log(buffers, r)
  /\ UNCHANGED <<topic_log, polled, flushed>>
  /\ UNCHANGED notingest

\* consumer.poll(interval) returns the next message of partition p, line 159
poll_message(r, p) ==
  /\ loop.pc = "poll"
  /\ r \in Rebalances
  /\ LET c == rebalanced(consumer, r)
     IN  /\ p \in c.assigned
         /\ c.position[p] < MaxOffset
         /\ consumer' = [c EXCEPT !.position[p] = @ + 1]
         /\ loop' = after_poll([loop EXCEPT !.msg =
                       <<[partition |-> p, offset |-> c.position[p],
                          schema_id |-> topic_log[p][c.position[p] + 1],
                          error |-> FALSE]>>])
         /\ polled' = polled \cup {<<p, c.position[p]>>}
  /\ buffers' = IF r.kind = "revoke" THEN on_revoke(buffers, {r.partition})
                ELSE buffers
  /\ dropped' = dropped \cup revoke_log(buffers, r)
  /\ UNCHANGED <<topic_log, flushed>>
  /\ UNCHANGED notingest

\* consumer.poll(interval) returns an error event, line 159
poll_error ==
  /\ loop.pc = "poll"
  /\ loop' = after_poll([loop EXCEPT !.msg =
                <<[partition |-> 0, offset |-> 0, schema_id |-> 0, error |-> TRUE]>>])
  /\ UNCHANGED <<buffers, consumer, topic_log, polled, flushed, dropped>>
  /\ UNCHANGED notingest

\* error_cb = _raise_errors, lines 21-22 and 91: an error delivered to the
\* callback while consumer.poll runs is raised out of poll and out of main
error_cb ==
  /\ loop.pc = "poll"
  /\ loop' = [StartLoop(loop.restarts, loop.clock) EXCEPT !.pc = "crashed"]
  /\ buffers' = [p \in Partitions |-> <<>>]
  /\ dropped' = {}
  /\ polled' = {}
  /\ UNCHANGED <<consumer, topic_log, flushed>>
  /\ UNCHANGED notingest

\* the test of lines 173-176 with > in place of >=
buffer_due_gt(bufs, key, schema_id) ==
  /\ bufs[key] # <<>>
  /\ \/ Len(bufs[key][1].records) > chunk_size
     \/ bufs[key][1].schema_id # schema_id

\* the test of lines 173-176
buffer_due(bufs, key, schema_id) ==
  /\ bufs[key] # <<>>
  /\ \/ Len(bufs[key][1].records) >= chunk_size
     \/ bufs[key][1].schema_id # schema_id

\* flush(key) that leaves the buffer in place
flush_keep(bufs, key) == bufs

\* flush(key), lines 110-137: the buffer is taken; ensure_schema and
\* insert_alert_chunk are coroutine functions called without await, so
\* lines 115-134 build two coroutine objects that never run
flush(bufs, key) == [bufs EXCEPT ![key] = <<>>]

\* lines 178-185: append to the buffer of the partition or open one
buffer_message(bufs, m, now) ==
  IF bufs[m.partition] # <<>>
  THEN [bufs EXCEPT ![m.partition][1].records = Append(@, m.offset),
                    ![m.partition][1].end_offset = m.offset,
                    ![m.partition][1].last_seen = now]
  ELSE [bufs EXCEPT ![m.partition] =
          <<[records |-> <<m.offset>>, schema_id |-> m.schema_id,
             start_offset |-> m.offset, end_offset |-> m.offset,
             last_seen |-> now]>>]

\* the sweep of lines 188-191 with >= in place of >
inactive_ge(bufs, now) ==
  {p \in Partitions : bufs[p] # <<>> /\ now - bufs[p][1].last_seen >= timeout}

\* the partitions lines 188-191 flush for inactivity
inactive(bufs, now) ==
  {p \in Partitions : bufs[p] # <<>> /\ now - bufs[p][1].last_seen > timeout}

\* lines 162-191 and the loop test of line 156, for a message or none; now
\* (line 162) is the time the last poll returned
main_handle ==
  /\ loop.pc = "handle"
  /\ ~(loop.msg # <<>> /\ loop.msg[1].error)
  /\ LET m == loop.msg
         now == loop.clock
         due == m # <<>> /\ buffer_due(buffers, m[1].partition, m[1].schema_id)
         b1 == IF due THEN flush(buffers, m[1].partition) ELSE buffers
         b2 == IF m # <<>> THEN buffer_message(b1, m[1], now) ELSE b1
         idle == inactive(b2, now)
     IN  /\ buffers' = [p \in Partitions |-> IF p \in idle THEN <<>> ELSE b2[p]]
         /\ flushed' = (IF due THEN flush_log(buffers, {m[1].partition}) ELSE {})
                          \cup flush_log(b2, idle)
  /\ loop' = [loop EXCEPT !.pc = IF loop.stop THEN "closed" ELSE "poll",
                          !.msg = <<>>]
  /\ dropped' = {}
  /\ polled' = {}
  /\ UNCHANGED <<consumer, topic_log>>
  /\ UNCHANGED notingest

\* lines 165-166: an error event raises KafkaException out of main
main_raise ==
  /\ loop.pc = "handle"
  /\ loop.msg # <<>> /\ loop.msg[1].error
  /\ loop' = [StartLoop(loop.restarts, loop.clock) EXCEPT !.pc = "crashed"]
  /\ buffers' = [p \in Partitions |-> <<>>]
  /\ dropped' = {}
  /\ polled' = {}
  /\ UNCHANGED <<consumer, topic_log, flushed>>
  /\ UNCHANGED notingest

\* the signal handler, lines 143-148
handler ==
  /\ loop.pc \in {"poll", "handle"}
  /\ ~loop.stop
  /\ loop' = [loop EXCEPT !.stop = TRUE]
  /\ UNCHANGED <<buffers, consumer, topic_log, polled, flushed, dropped>>
  /\ UNCHANGED notingest

\* the process dies, and its buffers with it
crash ==
  /\ loop.pc \in {"poll", "handle"}
  /\ loop' = [StartLoop(loop.restarts, loop.clock) EXCEPT !.pc = "crashed"]
  /\ buffers' = [p \in Partitions |-> <<>>]
  /\ dropped' = {}
  /\ polled' = {}
  /\ UNCHANGED <<consumer, topic_log, flushed>>
  /\ UNCHANGED notingest

\* a new process starts: lines 75-94 and 139; its partitions come with the
\* first rebalance
restart ==
  /\ loop.pc \in {"crashed", "closed"}
  /\ loop.restarts < MaxRestarts
  /\ loop' = StartLoop(loop.restarts + 1, loop.clock)
  /\ buffers' = [p \in Partitions |-> <<>>]
  /\ consumer' = [consumer EXCEPT !.assigned = {}]
  /\ UNCHANGED <<topic_log, polled, flushed, dropped>>
  /\ UNCHANGED notingest

NextIngest ==
  \/ \E r \in Rebalances : poll_none(r)
  \/ \E r \in Rebalances, p \in Partitions : poll_message(r, p)
  \/ poll_error
  \/ error_cb
  \/ main_handle
  \/ main_raise
  \/ handler
  \/ crash
  \/ restart

\* the ingestor against a topic; the index and the object store are empty
SpecIngest == InitIngest /\ [][NextIngest]_vars

\* the index and the object store stay as they were and no offset is
\* committed, whatever the ingestor flushes
IngestWritesNothing ==
  /\ alert = {}
  /\ avroblob = {}
  /\ \A k \in Keys : s3[k] = NoObject
  /\ \A p \in Partitions : consumer.committed[p] = None

\* a buffer has been flushed
IngestHasFlushed == flushed # {}

\* the partitions a step takes from the consumer of the running process
Revoked == IF loop.pc = "poll" THEN consumer.assigned \ consumer'.assigned ELSE {}

\* the loop handles a message for a partition that has no buffer
OpensBuffer ==
  /\ loop.pc = "handle"
  /\ loop'.pc \in {"poll", "closed"}
  /\ loop.msg # <<>>
  /\ buffers[loop.msg[1].partition] = <<>>

\* the buffer of lines 183-185 for the message in hand
FreshBuffer ==
  /\ buffers'[loop.msg[1].partition] # <<>>
  /\ buffers'[loop.msg[1].partition][1].records = <<loop.msg[1].offset>>
  /\ buffers'[loop.msg[1].partition][1].start_offset = loop.msg[1].offset
  /\ buffers'[loop.msg[1].partition][1].schema_id = loop.msg[1].schema_id

\* a revocation that empties the revoked buffers and touches nothing else
DropsOnlyRevoked ==
  /\ \A p \in Partitions :
        buffers'[p] = IF p \in Revoked THEN <<>> ELSE buffers[p]
  /\ flushed' = flushed
  /\ s3' = s3
  /\ alert' = alert
  /\ avroblob' = avroblob
  /\ consumer'.committed = consumer.committed

\* C16: a revocation empties the buffers of the revoked partitions and of no
\* other partition, flushes nothing, writes nothing to the object store or
\* the index and commits no offset; a message for a partition that has no
\* buffer opens a fresh buffer holding that message alone
C16_RevokeDropsOnlyRevoked ==
  [][(Revoked # {} => DropsOnlyRevoked) /\ (OpensBuffer => FreshBuffer)]_vars

\* a revocation has dropped a buffer while another partition keeps its own
C16_Witness ==
  /\ dropped # {}
  /\ \E q \in Partitions \ dropped : q \in consumer.assigned /\ buffers[q] # <<>>

\* C17: when the loop has ended after the signal, its last pass has flushed
\* no buffer
C17_NoFlushAfterStop == loop.pc = "closed" => flushed = {}

\* the loop runs lines 162-191 for what the polls of this pass left in msg
Handles == loop.pc = "handle" /\ loop'.pc \in {"poll", "closed"}

\* a buffer as flush logs it
Logged(p, buf) ==
  [partition |-> p, start_offset |-> buf[1].start_offset,
   end_offset |-> buf[1].end_offset, records |-> buf[1].records]

\* PartitionBuffer([record], schema_id, schema, offset, offset, now), line 183
NewBuffer(m, now) ==
  <<[records |-> <<m.offset>>, schema_id |-> m.schema_id,
     start_offset |-> m.offset, end_offset |-> m.offset, last_seen |-> now]>>

\* the three cases of a delivered message
DeliveredTransition ==
  LET m == loop.msg[1]
      old == buffers[m.partition]
      new == buffers'[m.partition]
      taken == {f \in flushed' : f.partition = m.partition}
  IN  CASE old = <<>> ->
             /\ new = NewBuffer(m, loop.clock)
             /\ taken = {}
        [] old # <<>> /\ (Len(old[1].records) >= chunk_size
                           \/ old[1].schema_id # m.schema_id) ->
             /\ new = NewBuffer(m, loop.clock)
             /\ taken = {Logged(m.partition, old)}
        [] OTHER ->
             /\ new # <<>>
             /\ new[1].records = Append(old[1].records, m.offset)
             /\ new[1].end_offset = m.offset
             /\ new[1].last_seen = loop.clock
             /\ new[1].start_offset = old[1].start_offset
             /\ new[1].schema_id = old[1].schema_id
             /\ taken = {}

\* C21: a delivered message opens a buffer when its partition has none;
\* when the buffer is full or of another schema the buffer is flushed and a
\* fresh one holding the message alone replaces it; otherwise the message
\* is appended, end offset and last activity advance, start offset and
\* schema id stay
C21_MessageTransition ==
  [][(Handles /\ loop.msg # <<>>) => DeliveredTransition]_vars

\* a buffer that had grown to chunk_size by an append was flushed for its
\* size, and the message that followed it opened the next buffer
C21_Witness ==
  \E f \in flushed :
    /\ Len(f.records) = chunk_size
    /\ buffers[f.partition] # <<>>
    /\ buffers[f.partition][1].start_offset = f.end_offset + 1
    /\ buffers[f.partition][1].schema_id = topic_log[f.partition][f.end_offset + 1]

\* C22: every message the polls of a pass returned for a partition the
\* consumer still owns is in the buffer of its partition when the pass ends
C22_EveryMessageBuffered ==
  [][Handles =>
       \A pm \in polled :
          pm[1] \in consumer.assigned =>
            /\ buffers'[pm[1]] # <<>>
            /\ \E i \in 1..Len(buffers'[pm[1]][1].records) :
                  buffers'[pm[1]][1].records[i] = pm[2]]_vars

\* C23: once a pass has flushed a buffer, the index holds rows and a blob,
\* the object store holds an object, and the offset after the buffer's end
\* offset is committed for its partition
C23_FlushStoresAndCommits ==
  \A f \in flushed :
    /\ alert # {}
    /\ avroblob # {}
    /\ \E k \in Keys : s3[k] # NoObject
    /\ consumer.committed[f.partition] = f.end_offset + 1

\* the sweep of a pass: what it does to the buffer of partition p
Swept(p) ==
  LET m == loop.msg
  IN  IF m # <<>> /\ m[1].partition = p
      THEN /\ buffers'[p] # <<>>
           /\ buffers'[p][1].last_seen = loop.clock
      ELSE IF buffers[p] # <<>> /\ loop.clock - buffers[p][1].last_seen > timeout
           THEN /\ buffers'[p] = <<>>
                /\ Logged(p, buffers[p]) \in flushed'
           ELSE /\ buffers'[p] = buffers[p]
                /\ \A f \in flushed' : f.partition # p

\* C24: every pass, with a message or without, flushes each buffer that has
\* been idle for more than the timeout, whatever its size, and leaves every
\* other buffer as it is, the one that just received the message included
C24_IdleSweep == [][Handles => \A p \in Partitions : Swept(p)]_vars

\* a pass without a message flushed an idle buffer below chunk_size and left
\* the buffer of the other partition in place
C24_Witness ==
  \E f \in flushed :
    /\ Len(f.records) < chunk_size
    /\ buffers[f.partition] = <<>>
    /\ \E q \in Partitions \ {f.partition} : buffers[q] # <<>>

\* between 1 and chunk_size records, first offset not after the last
WithinBound(b) ==
  /\ Len(b.records) >= 1
  /\ Len(b.records) <= chunk_size
  /\ b.start_offset <= b.end_offset

\* C35: at the end of every pass of the loop every partition buffer holds
\* at least 1 and at most chunk_size records with start_offset <=
\* end_offset, so flush never hands on an empty chunk or one of more than
\* chunk_size records.
C35_BufferBound ==
  /\ \A p \in Partitions : buffers[p] # <<>> => WithinBound(buffers[p][1])
  /\ \A f \in flushed : WithinBound(f)

\* a full buffer is waiting while a full one of the other partition was
\* flushed by the message that followed it
C35_Witness ==
  \E f \in flushed :
    /\ Len(f.records) = chunk_size
    /\ f.start_offset < f.end_offset
    /\ \E q \in Partitions \ {f.partition} :
         /\ buffers[q] # <<>>
         /\ Len(buffers[q][1].records) = chunk_size

\* every buffer belongs to an assigned partition and ends before the
\* position of the consumer on that partition, so the offset a later flush
\* of the partition names (end_offset + 1) is beyond those named before
BufferBehindPosition ==
  \A p \in Partitions :
    buffers[p] # <<>> =>
      /\ p \in consumer.assigned
      /\ buffers[p][1].end_offset < consumer.position[p]

\* the offset named by a flush is beyond the buffer the same pass leaves
\* for the partition
FlushNamesLaterOffsets ==
  [][Handles =>
       \A f \in flushed' :
         buffers'[f.partition] # <<>> =>
           f.end_offset + 1 <= buffers'[f.partition][1].start_offset]_vars

\* the last poll returned an error event
ErrorInHand == loop.pc \in {"poll", "handle"} /\ loop.msg # <<>> /\ loop.msg[1].error

\* the process is still about to raise for the error event in hand, and has
\* buffered, flushed and committed nothing meanwhile
StillInHand ==
  /\ loop'.msg = loop.msg
  /\ buffers' = buffers
  /\ flushed' = flushed
  /\ consumer'.committed = consumer.committed

\* C37: a broker error is fatal: once a poll has returned a message that
\* carries an error, or the error callback was called, main raises, and
\* until then it buffers nothing, flushes nothing and commits nothing.
C37_BrokerErrorIsFatal ==
  [][ErrorInHand => (loop'.pc = "crashed" \/ StillInHand)]_vars

(***************************************************************************)
(* The schema registry (db.py ensure_schema, get_schema).                  *)
(***************************************************************************)
\* an empty avroschema table and a process that has cached nothing
InitSchema ==
  /\ ParkedDW
  /\ ParkedSchema
  /\ ParkedQuery
  /\ s3 = [k \in Keys |-> NoObject]
  /\ ParkedLease
  /\ ParkedExport
  /\ ParkedIngest
  /\ ParkedCodec

\* processes registering and reading schemas, one call at a time
SpecSchema == InitSchema /\ [][NextSchema]_vars

\* C18: every id that was registered has exactly one row, holding the
\* content of its first registration, and the last call of ensure_schema
\* returned the schema parsed from the stored content of its id
C18_EnsureSchemaFirstWins ==
  /\ \A id \in RegistryIds :
        IF registry.first[id] = None
        THEN stored(id) = {}
        ELSE stored(id) = {[id |-> id, content |-> registry.first[id]]}
  /\ registry.last # <<>> =>
        \A s \in stored(registry.last[1].schema_id) :
           registry.last[1].returned = parse_schema(s.content)

\* ensure_schema was called for a registered id with another content, by a
\* process that holds no other schema while another id is registered
C18_Witness ==
  /\ registry.last # <<>>
  /\ registry.last[1].content # registry.first[registry.last[1].schema_id]
  /\ \A c \in AVRO_SCHEMAS : c.id = registry.last[1].schema_id
  /\ \E id \in RegistryIds \ {registry.last[1].schema_id} : registry.first[id] # None

(***************************************************************************)
(* ensure_schema called by several processes at once (db.py 42-58), one    *)
(* action per awaited statement.  Each process has its own AVRO_SCHEMAS.   *)
(***************************************************************************)
\* what a step of one process leaves alone
race_frame ==
  /\ UNCHANGED <<s3, AVRO_SCHEMAS, avroblob, alert, diaobject, ssobject,
                 avroblob_seq, call, ncalls, ingests, registry>>
  /\ UNCHANGED notschema

\* line 43: schema_id not in AVRO_SCHEMAS, or the cached schema is returned
ensure_schema_begin(p, schema_id, content) ==
  /\ racers[p].pc = "idle"
  /\ racers[p].calls < MaxRaceCalls
  /\ racers' = [racers EXCEPT ![p] =
       IF \E c \in @.cache : c.id = schema_id
       THEN [@ EXCEPT !.pc = "returned", !.schema_id = schema_id,
                      !.content = content, !.calls = @ + 1,
                      !.returned = cached_schema(racers[p].cache, schema_id)]
       ELSE [@ EXCEPT !.pc = "select", !.schema_id = schema_id,
                      !.content = content, !.calls = @ + 1, !.returned = None]]
  /\ UNCHANGED avroschema
  /\ race_frame

\* lines 45-49 and 55-56: the select sees the committed rows
ensure_schema_select(p) ==
  /\ racers[p].pc = "select"
  /\ racers' = [racers EXCEPT ![p] =
       IF stored(@.schema_id) = {}
       THEN [@ EXCEPT !.pc = "insert"]
       ELSE [@ EXCEPT !.pc = "parse",
                      !.content = (CHOOSE r \in stored(racers[p].schema_id) : TRUE).content]]
  /\ UNCHANGED avroschema
  /\ race_frame

\* lines 51-53: insert(AvroSchema).values(...).  The statement waits for an
\* uncommitted row with the same primary key (models.py 39); once a row
\* with that key is committed it raises IntegrityError out of ensure_schema
ensure_schema_insert(p) ==
  /\ racers[p].pc = "insert"
  /\ \A q \in Procs \ {p} :
       ~(racers[q].pc = "commit" /\ racers[q].schema_id = racers[p].schema_id)
  /\ racers' = [racers EXCEPT ![p].pc =
       IF stored(racers[p].schema_id) = {} THEN "commit" ELSE "raised"]
  /\ UNCHANGED avroschema
  /\ race_frame

\* line 54: session.commit()
ensure_schema_commit(p) ==
  /\ racers[p].pc = "commit"
  /\ avroschema' = avroschema \cup
       {[id |-> racers[p].schema_id, content |-> racers[p].content]}
  /\ racers' = [racers EXCEPT ![p].pc = "parse"]
  /\ race_frame

\* lines 57-58: the schema is parsed, cached and returned
ensure_schema_parse(p) ==
  /\ racers[p].pc = "parse"
  /\ racers' = [racers EXCEPT ![p] =
       [@ EXCEPT !.pc = "returned",
                 !.returned = parse_schema(racers[p].content),
                 !.cache = {c \in @ : c.id # racers[p].schema_id} \cup
                   {[id |-> racers[p].schema_id,
                     schema |-> parse_schema(racers[p].content)]}]]
  /\ UNCHANGED avroschema
  /\ race_frame

\* the caller goes on after the call returned
ensure_schema_return(p) ==
  /\ racers[p].pc = "returned"
  /\ racers' = [racers EXCEPT ![p].pc = "idle"]
  /\ UNCHANGED avroschema
  /\ race_frame

NextRace ==
  \/ \E p \in Procs, id \in RegistryIds, content \in SchemaContents :
       ensure_schema_begin(p, id, content)
  \/ \E p \in Procs : ensure_schema_select(p)
  \/ \E p \in Procs : ensure_schema_insert(p)
  \/ \E p \in Procs : ensure_schema_commit(p)
  \/ \E p \in Procs : ensure_schema_parse(p)
  \/ \E p \in Procs : ensure_schema_return(p)

\* processes with empty caches registering schemas in an empty table
SpecRace == InitSchema /\ [][NextRace]_vars

\* no two rows of avroschema share an id (primary key, models.py 39)
AvroSchemaPrimaryKey ==
  \A id \in RegistryIds : Cardinality(stored(id)) <= 1

\* C33: when processes with their own caches call ensure_schema for the
\* same unregistered id at the same time, every call returns the schema
\* without an error and exactly one row with that id exists afterwards.
C33_EnsureSchemaRaceSafe ==
  \A p \in Procs :
    /\ racers[p].pc # "raised"
    /\ racers[p].pc = "returned" =>
         /\ Cardinality(stored(racers[p].schema_id)) = 1
         /\ \A r \in stored(racers[p].schema_id) :
              racers[p].returned = parse_schema(r.content)

(***************************************************************************)
(* Cone search (queries.py cone_search_condition).  The decomposition of   *)
(* the cone, ranges_for_cone, is drawn from what it may return.            *)
(***************************************************************************)
\* the HEALPix order of the hpx column
MaxOrder == 2

\* models.NSIDE = 1 << order, the resolution of the hpx column
NSIDE == 2 ^ MaxOrder
\* the highest cell a range of the decomposition ends at
MaxCell == 6

\* the resolutions ranges_for_cone may choose: powers of two up to max_nside
Nsides == {2 ^ k : k \in 0..MaxOrder}

\* number of nested HEALPix pixels at a resolution
Npix(nside) == 12 * nside * nside

\* values of the hpx column
StoredPixels == 0..(Npix(NSIDE) - 1)

\* the half-open ranges [lo, hi) of cells at a resolution
CellRanges(nside) ==
  {r \in (0..Min(MaxCell, Npix(nside))) \X (0..Min(MaxCell, Npix(nside))) :
     r[1] < r[2]}

\* ranges_for_cone(ra, dec, radius, max_nside=NSIDE): a resolution and
\* disjoint half-open ranges of cells at that resolution, in order
ranges_for_cone ==
  UNION {{[nside |-> n, ranges |-> rs] :
            rs \in {<<r>> : r \in CellRanges(n)}
                     \cup {rr \in {<<r1, r2>> : r1, r2 \in CellRanges(n)} :
                             rr[1][2] <= rr[2][1]}} :
           n \in Nsides}

\* line 28 without the square
scale_linear(nside) == NSIDE \div nside

\* line 28: scale = (NSIDE // nside) ** 2
scale(nside) == (NSIDE \div nside) * (NSIDE \div nside)

\* lines 29-37: the two conditions, the ranges scaled to the resolution of
\* the column and the distance to the center
cone_search_condition(out) ==
  /\ cone.pc = "idle"
  /\ out \in ranges_for_cone
  /\ cone' = [pc |-> "built", nside |-> out.nside, ranges |-> out.ranges,
              pix |-> [i \in 1..Len(out.ranges) |->
                         <<out.ranges[i][1] * scale(out.nside),
                           out.ranges[i][2] * scale(out.nside)>>],
              earth_distance |-> TRUE]
  /\ UNCHANGED lookup
  /\ UNCHANGED notquery

\* or_(and_(pix >= left, pix < right), ...) on a value of the column
or_ranges(pix, hpx) ==
  \E i \in 1..Len(pix) : hpx >= pix[i][1] /\ hpx < pix[i][2]

\* get_blobs_with_condition, db.py 204-220: where(*conditions) on a row with
\* the given hpx
\* that is, or is not, nearer to the center than radius
where(hpx, near) ==
  /\ cone.pc = "built"
  /\ cone' = [pc |-> "filtered", nside |-> cone.nside, ranges |-> cone.ranges,
              pix |-> cone.pix, earth_distance |-> cone.earth_distance,
              row |-> [hpx |-> hpx, near |-> near],
              in_range |-> or_ranges(cone.pix, hpx),
              selected |-> or_ranges(cone.pix, hpx) /\ (cone.earth_distance => near)]
  /\ UNCHANGED lookup
  /\ UNCHANGED notquery

NextCone ==
  \/ \E out \in ranges_for_cone : cone_search_condition(out)
  \/ \E hpx \in StoredPixels, near \in BOOLEAN : where(hpx, near)

\* cone searches over rows of the archive
SpecCone == InitSchema /\ [][NextCone]_vars

\* the cell at the chosen resolution that holds a pixel of the column
Ancestor(hpx, nside) ==
  hpx \div ((NSIDE \div nside) * (NSIDE \div nside))

\* the cell is in one of the ranges of the decomposition
Covered(ranges, cell) ==
  \E i \in 1..Len(ranges) : ranges[i][1] <= cell /\ cell < ranges[i][2]

\* C38: a stored cell id satisfies the OR of the scaled conditions
\* lo * scale <= p < hi * scale exactly when its ancestor p div scale at the
\* chosen resolution is in one of the ranges [lo, hi) of the decomposition,
\* with scale = (NSIDE / nside)^2; a row is selected exactly when it is in
\* range and nearer to the center than radius.
C38_ScaledRangesCoverAncestors ==
  cone.pc = "filtered" =>
    /\ cone.in_range <=> Covered(cone.ranges, Ancestor(cone.row.hpx, cone.nside))
    /\ cone.selected <=> (cone.in_range /\ cone.row.near)

\* a row in the last pixel of the last cell of the second range, at a
\* coarser resolution than the column, was selected
C38_Witness ==
  /\ cone.pc = "filtered"
  /\ cone.nside < NSIDE
  /\ Len(cone.ranges) = 2
  /\ cone.row.hpx = cone.pix[2][2] - 1
  /\ cone.selected

(***************************************************************************)
(* Lookup of one alert by id (server/alert.py).                            *)
(***************************************************************************)
\* diaSourceIds a request may name
MaxLookupId == 4

LookupIds == 1..MaxLookupId

\* the columns a request selects: all of them, or the cutouts
StarExpression == "*"
CutoutColumns == "cutouts"

\* flatten(alerts.select(*columns).filter(diaSourceId = id).limit(1)): the
\* rows of the table with that id, as a list
flatten(relation, columns, diaSourceId) ==
  IF diaSourceId \in relation
  THEN <<[diaSourceId |-> diaSourceId, columns |-> columns]>>
  ELSE <<>>

\* next(iter(rows)) without a default: the first element, or StopIteration
next_iter(rows) ==
  IF rows = <<>> THEN [raised |-> "StopIteration", value |-> <<>>]
  ELSE [raised |-> "null", value |-> <<rows[1]>>]

\* raise HTTPException(status.HTTP_404_NOT_FOUND, ...), lines 37-39
NotFound == [raised |-> "HTTPException", status_code |-> 404, record |-> <<>>]

\* _get_alert_from_iceberg(diaSourceId, alerts, columns), lines 20-39
get_alert(relation, columns, diaSourceId) ==
  LET n == next_iter(flatten(relation, columns, diaSourceId))
  IN  IF n.raised # "null"
      THEN [raised |-> n.raised, status_code |-> 0, record |-> <<>>]
      ELSE IF n.value # <<>>
      THEN [raised |-> "null", status_code |-> 200, record |-> n.value]
      ELSE NotFound

\* a table of alerts and nobody asking
InitLookup ==
  /\ ParkedDW
  /\ registry = NoRegistry
  /\ racers = NoRacers
  /\ cone = [pc |-> "idle"]
  /\ lookup \in {[pc |-> "idle", relation |-> r] : r \in SUBSET LookupIds}
  /\ s3 = [k \in Keys |-> NoObject]
  /\ ParkedLease
  /\ ParkedExport
  /\ ParkedIngest
  /\ ParkedCodec

\* get_alert_from_iceberg, lines 42-49
get_alert_from_iceberg(diaSourceId) ==
  /\ lookup.pc = "idle"
  /\ lookup' = [pc |-> "done", relation |-> lookup.relation,
                diaSourceId |-> diaSourceId, columns |-> StarExpression,
                out |-> get_alert(lookup.relation, StarExpression, diaSourceId)]
  /\ UNCHANGED cone
  /\ UNCHANGED notquery

\* get_cutouts_from_iceberg, lines 52-65
get_cutouts_from_iceberg(diaSourceId) ==
  /\ lookup.pc = "idle"
  /\ lookup' = [pc |-> "done", relation |-> lookup.relation,
                diaSourceId |-> diaSourceId, columns |-> CutoutColumns,
                out |-> get_alert(lookup.relation, CutoutColumns, diaSourceId)]
  /\ UNCHANGED cone
  /\ UNCHANGED notquery

NextLookup ==
  \/ \E id \in LookupIds : get_alert_from_iceberg(id)
  \/ \E id \in LookupIds : get_cutouts_from_iceberg(id)

\* requests for one alert against a table of alerts
SpecLookup == InitLookup /\ [][NextLookup]_vars

\* a lookup of an id the table holds returns its record
LookupFindsStored ==
  (lookup.pc = "done" /\ lookup.diaSourceId \in lookup.relation) =>
    /\ lookup.out.raised = "null"
    /\ lookup.out.record = <<[diaSourceId |-> lookup.diaSourceId,
                              columns |-> lookup.columns]>>

\* C39: a lookup of a record id that is not in the archive is a normal
\* negative result: the caller gets not-found (404), never another
\* exception.
C39_MissingIdIsNotFound ==
  (lookup.pc = "done" /\ lookup.diaSourceId \notin lookup.relation) =>
    lookup.out = NotFound

\* the dual write alone: no result group exists
SpecDW == InitDW /\ [][NextDW]_vars

Spec == SpecDW
====
